---- MODULE Spec2Model ----
(***************************************************************************)
(* Model of the DSA-110 hardware monitor and control package (hwmc):       *)
(* antenna command dispatch (dsa_labjack.py), the calibration writer       *)
(* (write_config.py) and the antenna / backend session life cycle.         *)
(*                                                                         *)
(* Conventions                                                             *)
(*  - A Python str is a sequence of one-character strings, so that         *)
(*    str.lower(), concatenation and float(str) are computed, not assumed. *)
(*  - A Python float is a record [k, m]: k = "num" with m the value in     *)
(*    units of 1/Unit (Unit = 2^10), or k = "nan" / "inf" / "ninf".        *)
(*  - A JSON value is a record [t, s, f] (type tag, str payload, numeric   *)
(*    payload).  A JSON int n is carried unscaled in f.m.                  *)
(*  - hwlog is the sequence of LJM transport calls that returned normally  *)
(*    during the operation recorded in last (the most recent operation).   *)
(***************************************************************************)
EXTENDS Integers, Sequences, FiniteSets, TLC

VARIABLES
    apc,        \* antenna session: where its constructor / run() thread stands
    astop,      \* antenna session: self.stop
    iters,      \* antenna session: poll iterations started by run()
    etcd_valid, \* antenna session: self.etcd_valid
    watchIds,   \* antenna session: the watches whose id attribute is not None
    sdIdx,      \* antenna session: next entry of the shutdown sequence of run()
    active,     \* store: the watches of the session that are installed and not cancelled
    storeOpen,  \* store: the session's client connection has not been closed
    storelog,   \* store: the put / cancel_watch / close calls the session has made
    calKey,     \* store: the value under /cal/ant/<n> (CalAbsent: no such key)
    calEvent,   \* store: a change of /cal/ant/<n> not yet handed to cal_callback
    bpc,        \* backend session: where its run() thread stands
    bstop,      \* backend session: self.stop
    biters,     \* backend session: poll iterations started by run()
    betcd_valid, \* backend session: self.etcd_valid
    bstorelog,  \* store: the put / close calls the backend session has made
    hpc,        \* Hwmc: where stop() stands
    disc,       \* DiscoverT7: the state of its constructor
    destroyed,  \* the sessions whose __del__ has run
    ljclose,    \* ljm.close calls made on each session's handle
    clock,      \* time.time() in microseconds, as the antenna thread reads it
    monlog,     \* the 'time' fields the antenna session has published, in order
    fnIn,       \* the arguments and device readings of a function called on its own
    fnOut,      \* what that call returned or raised
    watcher,    \* store client of one session: puts delivered to its watches, callbacks under way
    flash,      \* the device's user flash, one FLOAT32 slot per 4-byte stride
    flash0,     \* the flash as it was when the most recent operation started
    calTable,   \* the calibration table handed to the calibration writer
    ncalls,     \* consecutive calls of the calibration writer made with calTable
    prev,       \* the operation before the most recent one
    files,      \* set of paths for which Path(name).is_file() is true
    event,      \* value put to a command key and not yet handed to cmd_callback
    fault,      \* index of the transport call of the most recent operation that raised LJMError (0: none)
    hwlog,      \* transport calls that returned during the most recent operation
    last        \* the most recent operation: what ran, on what, how it ended

vars == <<apc, astop, iters, etcd_valid, watchIds, sdIdx, active, storeOpen, storelog,
          calKey, calEvent, bpc, bstop, biters, betcd_valid, bstorelog, hpc,
          disc, destroyed, ljclose, clock, monlog, fnIn, fnOut, watcher,
          flash, flash0, calTable, ncalls, prev, files, event, fault, hwlog, last>>

antVars   == <<apc, astop, iters, etcd_valid, watchIds, sdIdx>>
storeVars == <<active, storeOpen, storelog, calKey, calEvent>>
bebVars   == <<bpc, bstop, biters, betcd_valid, bstorelog>>
sessVars  == <<antVars, storeVars, bebVars, hpc>>

gcVars    == <<destroyed, ljclose>>
timeVars  == <<clock, monlog>>
callVars  == <<fnIn, fnOut>>

calVars == <<flash, flash0, calTable, ncalls, prev>>
cmdVars == <<files, event>>

-----------------------------------------------------------------------------
(* Python str *)

UpperAlpha == <<"A","B","C","D","E","F","G","H","I","J","K","L","M",
                "N","O","P","Q","R","S","T","U","V","W","X","Y","Z">>
LowerAlpha == <<"a","b","c","d","e","f","g","h","i","j","k","l","m",
                "n","o","p","q","r","s","t","u","v","w","x","y","z">>

LowerChar(c) ==
    IF \E i \in 1..26 : UpperAlpha[i] = c
    THEN LowerAlpha[CHOOSE i \in 1..26 : UpperAlpha[i] = c]
    ELSE c

\* str.lower()
StrLower(s) == [i \in 1..Len(s) |-> LowerChar(s[i])]

Digits == <<"0","1","2","3","4","5","6","7","8","9">>
IsDigit(c) == \E i \in 1..10 : Digits[i] = c
DigitVal(c) == (CHOOSE i \in 1..10 : Digits[i] = c) - 1
AllDigits(s) == \A i \in 1..Len(s) : IsDigit(s[i])

RECURSIVE DigitsVal(_)
DigitsVal(s) ==
    IF Len(s) = 0 THEN 0
    ELSE 10 * DigitsVal(SubSeq(s, 1, Len(s) - 1)) + DigitVal(s[Len(s)])

RECURSIVE Pow10(_)
Pow10(n) == IF n <= 0 THEN 1 ELSE 10 * Pow10(n - 1)

\* position of the first occurrence of character c in s, 0 when absent
FirstIndex(s, c) ==
    IF \E i \in 1..Len(s) : s[i] = c
    THEN CHOOSE i \in 1..Len(s) : s[i] = c /\ \A j \in 1..(i - 1) : s[j] # c
    ELSE 0

-----------------------------------------------------------------------------
(* Python float *)

Unit == 2 ^ 10

F(m)  == [k |-> "num",  m |-> m]
NaN   == [k |-> "nan",  m |-> 0]
Inf   == [k |-> "inf",  m |-> 0]
NInf  == [k |-> "ninf", m |-> 0]

FNeg(a) ==
    CASE a.k = "num"  -> F(0 - a.m)
      [] a.k = "inf"  -> NInf
      [] a.k = "ninf" -> Inf
      [] OTHER        -> NaN

\* a != a is true exactly for NaN
FNe(a, b) == a.k = "nan" \/ b.k = "nan" \/ a # b

FSub(a, b) ==
    CASE a.k = "nan" \/ b.k = "nan"   -> NaN
      [] a.k = "num" /\ b.k = "num"   -> F(a.m - b.m)
      [] a.k = "num"                  -> FNeg(b)
      [] b.k = "num"                  -> a
      [] a.k = b.k                    -> NaN
      [] OTHER                        -> a

FAbs(a) ==
    CASE a.k = "num"  -> F(IF a.m < 0 THEN 0 - a.m ELSE a.m)
      [] a.k = "nan"  -> NaN
      [] OTHER        -> Inf

\* a > num/den for a positive rational num/den (a.m * den > num * Unit, without
\* the product); every comparison with NaN is false
FGtRat(a, num, den) ==
    CASE a.k = "num"  -> a.m > (num * Unit) \div den
      [] a.k = "inf"  -> TRUE
      [] OTHER        -> FALSE

\* nearest multiple of 1/Unit to n * 10^e (halves away from zero)
ScaleDec(n, e) ==
    IF e >= 0 THEN n * Unit * Pow10(e)
    ELSE LET d == Pow10(0 - e) IN (2 * n * Unit + d) \div (2 * d)

NoFloat == [ok |-> FALSE, f |-> NaN]
SomeFloat(x) == [ok |-> TRUE, f |-> x]

\* unsigned decimal literal: digits [. digits] [e [sign] digits], with a digit
\* in the mantissa
ParseDecimal(s) ==
    LET ePos  == FirstIndex(s, "e")
        mant  == IF ePos = 0 THEN s ELSE SubSeq(s, 1, ePos - 1)
        expS  == IF ePos = 0 THEN <<>> ELSE SubSeq(s, ePos + 1, Len(s))
        eNeg  == Len(expS) > 0 /\ expS[1] = "-"
        eDig  == IF Len(expS) > 0 /\ expS[1] \in {"+", "-"}
                 THEN SubSeq(expS, 2, Len(expS)) ELSE expS
        expOk == ePos = 0 \/ (Len(eDig) > 0 /\ AllDigits(eDig))
        expV  == IF ePos = 0 \/ ~expOk THEN 0
                 ELSE IF eNeg THEN 0 - DigitsVal(eDig) ELSE DigitsVal(eDig)
        dPos  == FirstIndex(mant, ".")
        ip    == IF dPos = 0 THEN mant ELSE SubSeq(mant, 1, dPos - 1)
        fp    == IF dPos = 0 THEN <<>> ELSE SubSeq(mant, dPos + 1, Len(mant))
        mOk   == AllDigits(ip) /\ AllDigits(fp) /\ Len(ip) + Len(fp) > 0
    IN  IF mOk /\ expOk
        THEN SomeFloat(F(ScaleDec(DigitsVal(ip \o fp), expV - Len(fp))))
        ELSE NoFloat

S_nan      == <<"n","a","n">>
S_inf      == <<"i","n","f">>
S_infinity == <<"i","n","f","i","n","i","t","y">>

\* float(str): the value, or ValueError (ok = FALSE).  The strings of this model
\* carry no whitespace and no underscore.
ParseFloat(str) ==
    LET s    == StrLower(str)
        neg  == Len(s) > 0 /\ s[1] = "-"
        body == IF Len(s) > 0 /\ s[1] \in {"+", "-"} THEN SubSeq(s, 2, Len(s)) ELSE s
        mag  == IF body = S_nan THEN SomeFloat(NaN)
                ELSE IF body = S_inf \/ body = S_infinity THEN SomeFloat(Inf)
                ELSE ParseDecimal(body)
    IN  IF mag.ok /\ neg THEN SomeFloat(FNeg(mag.f)) ELSE mag

-----------------------------------------------------------------------------
(* JSON values (the result of json.loads) *)

JStr(s)   == [t |-> "str",   s |-> s,    f |-> F(0)]
JInt(n)   == [t |-> "int",   s |-> <<>>, f |-> F(n)]
JFloat(x) == [t |-> "float", s |-> <<>>, f |-> x]
JBool(b)  == [t |-> "bool",  s |-> <<>>, f |-> F(IF b THEN 1 ELSE 0)]
JNull     == [t |-> "null",  s |-> <<>>, f |-> F(0)]
JList     == [t |-> "list",  s |-> <<>>, f |-> F(0)]
JDict     == [t |-> "dict",  s |-> <<>>, f |-> F(0)]
Absent    == [t |-> "absent", s |-> <<>>, f |-> F(0)]

-----------------------------------------------------------------------------
(* LJM transport calls *)

\* a call record: the LJM function, the register (by name), the flash address
\* a pointer register is set to (0 where there is none) and the value written
W(reg, val)  == [op |-> "eWriteName", reg |-> reg, a |-> 0, val |-> val]
R(reg)       == [op |-> "eReadName", reg |-> reg, a |-> 0, val |-> JNull]
RAddr(reg)   == [op |-> "eReadAddress", reg |-> reg, a |-> 0, val |-> JNull]
WBytes(reg, val) == [op |-> "eWriteNameByteArray", reg |-> reg, a |-> 0, val |-> val]

\* Constants.NOISE_A, Constants.NOISE_B
NOISE_A == "EIO3"
NOISE_B == "EIO4"

\* the outcome of a Python call: the transport calls it makes, in order, the
\* exception that leaves it ("none": it returns) and what it logs
Res(hw, exc, log) == [hw |-> hw, exc |-> exc, log |-> log]
Raise(exc) == Res(<<>>, exc, <<>>)

\* the k-th transport call of r raises LJMError, which nothing in r catches:
\* the calls before it have been made, the rest of r does not run
ApplyFault(r, k) ==
    IF k \in 1..Len(r.hw)
    THEN Res(SubSeq(r.hw, 1, k - 1), "LJMError", <<>>)
    ELSE r

-----------------------------------------------------------------------------
(* Script manager (lua_script_utilities.py), as far as load_script uses it *)

LUA_DIR == <<".",".","/","l","u","a","-","s","c","r","i","p","t","s">>
S_dotlua == <<".","l","u","a">>

\* validate_file: the candidate names, in the order they are tried
ScriptCandidates(name) ==
    << name, name \o S_dotlua, LUA_DIR \o name, LUA_DIR \o name \o S_dotlua >>

\* validate_file: [err, script]
ValidateFile(name) ==
    LET c   == ScriptCandidates(name)
        hit == {i \in 1..Len(c) : c[i] \in files}
    IN  IF hit = {} THEN [err |-> TRUE, script |-> <<>>]
        ELSE [err |-> FALSE,
              script |-> c[CHOOSE i \in hit : \A j \in hit : i <= j]]

\* load(): stop the engine twice, read back, upload size and source.  The
\* uploaded text is identified by the file it is read from.
ScriptLoad(sc) ==
    IF sc.err THEN <<>>
    ELSE << W("LUA_RUN", JInt(0)), W("LUA_RUN", JInt(0)), R("LUA_RUN"),
            RAddr("46000"),
            W("LUA_SOURCE_SIZE", JStr(sc.script)),
            WBytes("LUA_SOURCE_WRITE", JStr(sc.script)) >>

ScriptSaveToFlash(sc) == << W("LUA_SAVE_TO_FLASH", JInt(1)) >>

ScriptRunOnStartup(sc) ==
    IF sc.err THEN <<>> ELSE << W("LUA_RUN_DEFAULT", JInt(1)) >>

\* run(debug): the status poll is recorded once
ScriptRun(sc, debug) ==
    IF sc.err THEN <<>>
    ELSE << W("LUA_DEBUG_ENABLE", JInt(IF debug THEN 1 ELSE 0)),
            W("LUA_RUN", JInt(1)), R("LUA_RUN") >>

-----------------------------------------------------------------------------
(* Antenna command handlers (DsaAntLabJack) *)

\* _validate_num
ValidateNum(val) ==
    CASE val.t = "str"            -> ParseFloat(val.s)
      [] val.t = "float"          -> SomeFloat(val.f)
      [] val.t \in {"int", "bool"} -> SomeFloat(F(val.f.m * Unit))
      [] OTHER                    -> NoFloat

\* float(arg) for the arguments _motor_cmd receives
ToFloat(arg) == IF arg.t = "float" THEN arg.f ELSE F(arg.f.m * Unit)

\* _motor_cmd.cmd_list
CmdList(cmd) == IF cmd = "halt" THEN 1 ELSE 2

\* _motor_cmd with the two writes of a move in the opposite order
MotorCmdFlagFirst(cmd, arg) ==
    IF cmd = "move" /\ arg.t # "null"
    THEN << W("USER_RAM0_U16", JInt(CmdList(cmd))),
            W("USER_RAM1_F32", JFloat(ToFloat(arg))) >>
    ELSE IF cmd = "halt"
    THEN << W("USER_RAM0_U16", JInt(CmdList(cmd))) >>
    ELSE <<>>

\* _motor_cmd(cmd, arg=0)
MotorCmd(cmd, arg) ==
    IF cmd = "move" /\ arg.t # "null"
    THEN << W("USER_RAM1_F32", JFloat(ToFloat(arg))),
            W("USER_RAM0_U16", JInt(CmdList(cmd))) >>
    ELSE IF cmd = "halt"
    THEN << W("USER_RAM0_U16", JInt(CmdList(cmd))) >>
    ELSE <<>>

\* _move_ang(pos) without the test of what _validate_num returned: a value that
\* does not convert is sent on as 0.0
MoveAngUnchecked(pos) ==
    LET v == ValidateNum(pos)
    IN  IF v.ok THEN Res(MotorCmd("move", JFloat(v.f)), "none", <<"info">>)
        ELSE Res(MotorCmd("move", JFloat(F(0))), "none", <<"info">>)

\* _move_ang(pos)
MoveAng(pos) ==
    LET v == ValidateNum(pos)
    IN  IF v.ok THEN Res(MotorCmd("move", JFloat(v.f)), "none", <<"info">>)
        ELSE Res(<<>>, "none", <<>>)

\* _halt(_)
Halt(unused) == Res(MotorCmd("halt", JInt(0)), "none", <<"info">>)

\* switch_noise(pol, state) writing the state as it is given: True as 1, False as 0
SwitchNoiseAsGiven(pol, state) ==
    IF state.t # "bool" THEN Res(<<>>, "none", <<"error">>)
    ELSE LET state_val == IF state.f.m = 0 THEN 0 ELSE 1
         IN  IF pol = "a" THEN Res(<<W(NOISE_A, JInt(state_val))>>, "none", <<"info">>)
             ELSE IF pol = "b" THEN Res(<<W(NOISE_B, JInt(state_val))>>, "none", <<"info">>)
             ELSE Res(<<>>, "none", <<"error">>)

\* switch_noise(pol, state)
SwitchNoise(pol, state) ==
    IF state.t # "bool" THEN Res(<<>>, "none", <<"error">>)
    ELSE LET state_val == IF state.f.m = 0 THEN 1 ELSE 0
         IN  IF pol = "a" THEN Res(<<W(NOISE_A, JInt(state_val))>>, "none", <<"info">>)
             ELSE IF pol = "b" THEN Res(<<W(NOISE_B, JInt(state_val))>>, "none", <<"info">>)
             ELSE Res(<<>>, "none", <<"error">>)

\* load_script(script_name)
LoadScript(script_name) ==
    IF script_name.t # "str" THEN Raise("TypeError")
    ELSE LET sc == ValidateFile(script_name.s)
         IN  IF sc.err THEN Res(<<>>, "none", <<"info">>)
             ELSE Res(ScriptLoad(sc) \o ScriptSaveToFlash(sc) \o ScriptRunOnStartup(sc)
                        \o ScriptRun(sc, FALSE),
                      "none", <<"info", "info", "info", "info">>)

S_noise_a_on == <<"n","o","i","s","e","_","a","_","o","n">>
S_noise_b_on == <<"n","o","i","s","e","_","b","_","o","n">>
S_move       == <<"m","o","v","e">>
S_halt       == <<"h","a","l","t">>
S_script     == <<"s","c","r","i","p","t">>

\* the keys of lj_ant_cmds
LjAntCmds == {S_noise_a_on, S_noise_b_on, S_move, S_halt, S_script}

\* the number of positional arguments each bound handler of lj_ant_cmds takes
HandlerArity(name) == 1

\* lj_ant_cmds[name](arg)
HandlerBody(name, arg) ==
    CASE name = S_noise_a_on -> SwitchNoise("a", arg)
      [] name = S_noise_b_on -> SwitchNoise("b", arg)
      [] name = S_move       -> MoveAng(arg)
      [] name = S_halt       -> Halt(arg)
      [] OTHER               -> LoadScript(arg)

\* lj_ant_cmds[name] called with args: binding the arguments raises TypeError when their
\* number is not the handler's; the k-th transport call raises LJMError
CallHandler(name, args, k) ==
    IF Len(args) # HandlerArity(name) THEN Raise("TypeError")
    ELSE ApplyFault(HandlerBody(name, args[1]), k)

\* the statement after the handler call: logger.info("Executing command ...")
ThenInfo(r) == IF r.exc = "none" THEN Res(r.hw, r.exc, r.log \o <<"info">>) ELSE r

\* the command name as the table is indexed with it
CmdName(raw) == StrLower(raw)

\* the argument as the handler receives it
CmdArgs(val) == IF val.t = "str" THEN JStr(StrLower(val.s)) ELSE val

\* execute_cmd without the membership test: the table is indexed directly
ExecuteCmdNoTableCheck(cmd, k) ==
    IF cmd.kind # "dict" THEN Raise("TypeError")
    ELSE IF "cmd" \notin DOMAIN cmd.d THEN Raise("KeyError")
    ELSE IF cmd.d["cmd"].t # "str" THEN Raise("AttributeError")
    ELSE LET cmd_name == CmdName(cmd.d["cmd"].s)
         IN  IF cmd_name \notin LjAntCmds THEN Raise("KeyError")
             ELSE IF Cardinality(DOMAIN cmd.d) > 1
                  THEN IF "val" \notin DOMAIN cmd.d THEN Raise("KeyError")
                       ELSE ThenInfo(CallHandler(cmd_name, <<CmdArgs(cmd.d["val"])>>, k))
                  ELSE ThenInfo(CallHandler(cmd_name, <<>>, k))

\* execute_cmd(cmd), cmd the value json.loads returned
ExecuteCmd(cmd, k) ==
    IF cmd.kind # "dict" THEN Raise("TypeError")
    ELSE IF "cmd" \notin DOMAIN cmd.d THEN Raise("KeyError")
    ELSE IF cmd.d["cmd"].t # "str" THEN Raise("AttributeError")
    ELSE LET cmd_name == CmdName(cmd.d["cmd"].s)
         IN  IF cmd_name \in LjAntCmds
             THEN IF Cardinality(DOMAIN cmd.d) > 1
                  THEN IF "val" \notin DOMAIN cmd.d THEN Raise("KeyError")
                       ELSE ThenInfo(CallHandler(cmd_name, <<CmdArgs(cmd.d["val"])>>, k))
                  ELSE ThenInfo(CallHandler(cmd_name, <<>>, k))
             ELSE Res(<<>>, "none", <<"error">>)

\* cmd_callback(event): decode, json.loads, execute_cmd
CmdCallbackRes(p, k) ==
    IF p.kind = "invalid" THEN Raise("JSONDecodeError") ELSE ExecuteCmd(p, k)

-----------------------------------------------------------------------------
(* Calibration writer (write_config.py) *)

RECURSIVE BitLen(_)
BitLen(n) == IF n = 0 THEN 0 ELSE 1 + BitLen(n \div 2)

\* a non-negative count of 1/Unit rounded to 24 significant bits, ties to even
Round24(m) ==
    IF BitLen(m) <= 24 THEN m
    ELSE LET q    == 2 ^ (BitLen(m) - 24)
             down == m - (m % q)
             up   == down + q
             r    == m % q
         IN  IF 2 * r < q THEN down
             ELSE IF 2 * r > q THEN up
             ELSE IF (down \div q) % 2 = 0 THEN down ELSE up

\* the value a FLOAT32 register or flash slot holds after x is written to it
F32(x) ==
    IF x.k # "num" THEN x
    ELSE IF x.m < 0 THEN F(0 - Round24(0 - x.m)) ELSE F(Round24(x.m))

ReadPointer(addr) ==
    [op |-> "eWriteAddress", reg |-> "INTERNAL_FLASH_READ_POINTER", a |-> addr, val |-> JInt(addr)]
ReadFlash(addr) ==
    [op |-> "eReadAddressArray", reg |-> "INTERNAL_FLASH_READ", a |-> addr, val |-> JNull]
\* eWriteAddresses([INTERNAL_FLASH_KEY, INTERNAL_FLASH_ERASE], [key, 0])
EraseFlash ==
    [op |-> "eWriteAddresses", reg |-> "INTERNAL_FLASH_ERASE", a |-> 0, val |-> JInt(0)]
\* eWriteAddresses([INTERNAL_FLASH_KEY, INTERNAL_FLASH_WRITE_POINTER,
\*                  INTERNAL_FLASH_WRITE], [key, addr, value])
WriteFlash(addr, value) ==
    [op |-> "eWriteAddresses", reg |-> "INTERNAL_FLASH_WRITE", a |-> addr, val |-> JFloat(value)]

\* an erased flash slot reads back as all ones, which FLOAT32 decodes as NaN
Erased(fl) == [i \in 1..Len(fl) |-> NaN]

\* the flash after one transport call
FlashAfter(fl, c) ==
    IF c.reg = "INTERNAL_FLASH_ERASE" THEN Erased(fl)
    ELSE IF c.reg = "INTERNAL_FLASH_WRITE" /\ (c.a \div 4) + 1 \in 1..Len(fl)
    THEN [fl EXCEPT ![(c.a \div 4) + 1] = F32(c.val.f)]
    ELSE fl

RECURSIVE FlashAfterAll(_, _)
FlashAfterAll(fl, calls) ==
    IF calls = <<>> THEN fl
    ELSE FlashAfterAll(FlashAfter(fl, Head(calls)), Tail(calls))

\* the test with the tolerance 1e-4
DiffersTol4(old, value) ==
    FNe(old, old) \/ FGtRat(FAbs(FSub(old, value)), 1, 10000)

\* the test without its NaN clause
DiffersNoNaNTest(old, value) ==
    FGtRat(FAbs(FSub(old, value)), 1, 1000)

\* the test of line 55 for one slot: the stored value is NaN, or differs from
\* the candidate by more than 0.001
Differs(old, value) ==
    FNe(old, old) \/ FGtRat(FAbs(FSub(old, value)), 1, 1000)

\* the flag "same" after the comparison loop
Same(fl, cal_table) ==
    \A i \in 1..Len(cal_table) : ~Differs(fl[i], cal_table[i])

RECURSIVE ReadCalls(_)
\* the comparison loop: read pointer, then read, for the addresses 0, 4, ...
ReadCalls(n) ==
    IF n = 0 THEN <<>>
    ELSE ReadCalls(n - 1) \o << ReadPointer(4 * (n - 1)), ReadFlash(4 * (n - 1)) >>

RECURSIVE WriteCallsStride1(_, _)
\* the write loop advancing the address by 1 instead of 4
WriteCallsStride1(cal_table, n) ==
    IF n = 0 THEN <<>>
    ELSE WriteCallsStride1(cal_table, n - 1) \o << WriteFlash(n - 1, cal_table[n]) >>

RECURSIVE WriteCalls(_, _)
\* the write loop over the first n values
WriteCalls(cal_table, n) ==
    IF n = 0 THEN <<>>
    ELSE WriteCalls(cal_table, n - 1) \o << WriteFlash(4 * (n - 1), cal_table[n]) >>

\* the script restart with the start first
RestartCallsStartFirst ==
    << W("LUA_RUN", JInt(1)), W("LUA_RUN", JInt(0)), W("LUA_RUN", JInt(0)) >>

\* the script restart: LUA_RUN 0, 0, then 1
RestartCalls == << W("LUA_RUN", JInt(0)), W("LUA_RUN", JInt(0)), W("LUA_RUN", JInt(1)) >>

\* the plan with the erase after the writes
WriteConfigPlanEraseLast(fl, cal_table) ==
    ReadCalls(Len(cal_table))
    \o (IF Same(fl, cal_table) THEN <<>>
        ELSE WriteCalls(cal_table, Len(cal_table)) \o <<EraseFlash>> \o RestartCalls)

\* the transport calls of write_config_to_flash when none fails
WriteConfigPlan(fl, cal_table) ==
    ReadCalls(Len(cal_table))
    \o (IF Same(fl, cal_table) THEN <<>>
        ELSE <<EraseFlash>> \o WriteCalls(cal_table, Len(cal_table)) \o RestartCalls)

\* write_config_to_flash(lj_handle, cal_table) on a device whose flash is fl,
\* the k-th transport call raising LJMError: [hw, exc, log, flash].  Only the
\* last call, LUA_RUN 1, is inside a try; its failure is logged.
WriteConfigToFlash(fl, cal_table, k) ==
    LET plan == WriteConfigPlan(fl, cal_table)
        wrote == ~Same(fl, cal_table)
        done == IF k \in 1..Len(plan) THEN SubSeq(plan, 1, k - 1) ELSE plan
        exc  == IF k \in 1..Len(plan) /\ ~(wrote /\ k = Len(plan)) THEN "LJMError" ELSE "none"
        log  == (IF wrote /\ (k = 0 \/ k > 2 * Len(cal_table)) THEN <<"info", "info", "info">> ELSE <<>>)
                \o (IF wrote /\ k = Len(plan) THEN <<"error">> ELSE <<>>)
    IN  [hw |-> done, exc |-> exc, log |-> log, flash |-> FlashAfterAll(fl, done)]

\* the number of positional parameters of write_config_to_flash
WriteConfigArity == Len(<<"lj_handle", "cal_table">>)

-----------------------------------------------------------------------------
(* Command documents delivered by the store *)

EmptyDict == [k \in {} |-> JNull]

\* a JSON object with the fields "cmd", "val", "extra" that are not Absent
MkDict(c, v, x) ==
    LET keys == {k \in {"cmd", "val", "extra"} :
                    \/ k = "cmd" /\ c # Absent
                    \/ k = "val" /\ v # Absent
                    \/ k = "extra" /\ x # Absent}
    IN  [kind |-> "dict", o |-> JNull,
         d |-> [k \in keys |-> IF k = "cmd" THEN c ELSE IF k = "val" THEN v ELSE x]]

\* a JSON value that is not an object
MkOther(v) == [kind |-> "other", o |-> v, d |-> EmptyDict]

\* bytes json.loads rejects
InvalidJson == [kind |-> "invalid", o |-> JNull, d |-> EmptyDict]
NoPayload   == [kind |-> "none", o |-> JNull, d |-> EmptyDict]

S_MOVE   == <<"M","O","V","E">>
S_Halt   == <<"H","a","l","t">>
S_NOISE_B_ON == <<"N","O","I","S","E","_","B","_","O","N">>
S_bogus  == <<"b","o","g","u","s">>
S_45p0   == <<"4","5",".","0">>
S_m3p5   == <<"-","3",".","5">>
S_1E1    == <<"1","E","1">>
S_abc    == <<"a","b","c">>
S_Ctl    == <<"C","t","l">>
S_ctl    == <<"c","t","l">>
S_ctl_lua == <<"c","t","l",".","l","u","a">>
S_antenna_control_bare ==
    <<"a","n","t","e","n","n","a","_","c","o","n","t","r","o","l">>

CmdNameOpts ==
    { Absent, JInt(5), JStr(S_bogus),
      JStr(S_move), JStr(S_MOVE), JStr(S_halt), JStr(S_Halt),
      JStr(S_noise_a_on), JStr(S_NOISE_B_ON), JStr(S_script) }

ValOpts ==
    { Absent, JNull, JBool(TRUE), JBool(FALSE), JInt(45), JFloat(F(0 - 3584)),
      JStr(S_45p0), JStr(S_m3p5), JStr(S_1E1), JStr(S_abc), JStr(S_Ctl),
      JStr(S_antenna_control_bare), JList, JDict }

ExtraOpts == { Absent, JInt(1) }

CmdPayloads ==
    { MkDict(c, v, x) : c \in CmdNameOpts, v \in ValOpts, x \in ExtraOpts }
    \cup { InvalidJson, MkOther(JInt(5)), MkOther(JList), MkOther(JStr(S_move)),
           MkOther(JNull) }

\* the file systems the session may run on
FileFixtures ==
    { {}, {S_ctl}, {S_ctl_lua, LUA_DIR \o S_ctl},
      { LUA_DIR \o <<"/">> \o S_antenna_control_bare \o S_dotlua } }

\* an LJMError is injected at a transport call up to this index of a command
MaxFault == 2

IdleEvent == [st |-> "idle", key |-> "own", p |-> NoPayload]
NoOp == [op |-> "none", exc |-> "none", log |-> <<>>, open |-> TRUE]

\* no function has been called on its own
NoCall == [fn |-> "none"]

\* the deliveries of the store client are not followed
NoWatcher == [ant_num |-> 0 - 1]

\* no value under the calibration key / no calibration event
CalAbsent == [has |-> FALSE, table |-> <<>>]
CalDoc(t) == [has |-> TRUE, table |-> t]

\* no discovery is under way
NoDisc == [pc |-> "none"]

\* no session has been destroyed, no handle closed
NoneClosed == [ant |-> 0, beb |-> 0]

\* the watch that delivers a put to the session's own key or to the broadcast key
WatchOfKey(key) == IF key = "own" THEN "cmd" ELSE "cmd_all"

\* a constructed antenna session whose thread runs and whose watches are all
\* installed; no backend session
RunningSession ==
    /\ apc = "loop_top" /\ astop = FALSE /\ iters = 0 /\ etcd_valid = TRUE
    /\ watchIds = {"cmd", "cmd_all", "cal"} /\ sdIdx = 1
    /\ active = {"cmd", "cmd_all", "cal"} /\ storeOpen = TRUE /\ storelog = <<>>
    /\ calKey = CalAbsent /\ calEvent = CalAbsent
    /\ bpc = "none" /\ bstop = FALSE /\ biters = 0 /\ betcd_valid = FALSE
    /\ bstorelog = <<>> /\ hpc = "run"
    /\ disc = NoDisc /\ destroyed = {} /\ ljclose = NoneClosed
    /\ fnIn = NoCall /\ fnOut = NoCall
    /\ clock = 0 /\ monlog = <<>>

InitCmd ==
    /\ RunningSession
    /\ flash = <<>> /\ flash0 = <<>> /\ calTable = <<>> /\ ncalls = 0 /\ prev = NoOp
    /\ files \in FileFixtures
    /\ event = IdleEvent
    /\ fault = 0
    /\ hwlog = <<>>
    /\ last = NoOp
    /\ watcher = NoWatcher

\* a client puts a value to /cmd/ant/<n> ("own") or /cmd/ant/0 ("all")
PutCmd(pool) ==
    /\ event.st # "pending"
    /\ \E p \in pool, key \in {"own", "all"} :
          /\ WatchOfKey(key) \in active
          /\ event' = [st |-> "pending", key |-> key, p |-> p]
    /\ fault' = 0
    /\ hwlog' = <<>>
    /\ last' = [op |-> "put", exc |-> "none", log |-> <<>>, open |-> storeOpen]
    /\ UNCHANGED <<disc, watcher, callVars, gcVars, timeVars, files, calVars, sessVars>>

\* the watch on that key fires: cmd_callback(event)
CmdCallback ==
    /\ event.st = "pending"
    /\ WatchOfKey(event.key) \in active
    /\ \E k \in 0..MaxFault :
          LET r == CmdCallbackRes(event.p, k)
          IN  /\ hwlog' = r.hw
              /\ last' = [op |-> "cmd_callback", exc |-> r.exc, log |-> r.log,
                          open |-> storeOpen]
              /\ fault' = IF r.exc = "LJMError" THEN k ELSE 0
    /\ event' = [event EXCEPT !.st = "handled"]
    /\ UNCHANGED <<disc, watcher, callVars, gcVars, timeVars, files, calVars, sessVars>>

PutAnyCmd == PutCmd(CmdPayloads)

NextCmd == PutAnyCmd \/ CmdCallback

SpecCmd == InitCmd /\ [][NextCmd]_vars

-----------------------------------------------------------------------------
(* Claims about command dispatch, checked under SpecCmd *)

Handled == event.st = "handled" /\ last.op = "cmd_callback"

\* the document is a JSON object whose "cmd" is a string
HasCmdName(p) == p.kind = "dict" /\ "cmd" \in DOMAIN p.d /\ p.d["cmd"].t = "str"

\* "cmd" spells name in some letter case
IsCmd(p, name) == HasCmdName(p) /\ StrLower(p.d["cmd"].s) = name

\* the numbers and numeric strings of the fixture, with the float each denotes
NumericVals ==
    { JInt(45), JFloat(F(0 - 3584)), JStr(S_45p0), JStr(S_m3p5), JStr(S_1E1) }

FloatOfVal(v) ==
    CASE v = JInt(45)           -> F(45 * Unit)
      [] v = JFloat(F(0 - 3584)) -> F(0 - 3584)
      [] v = JStr(S_45p0)       -> F(45 * Unit)
      [] v = JStr(S_m3p5)       -> F(0 - 3584)
      [] OTHER                  -> F(10 * Unit)

IsNumericMove(p) ==
    IsCmd(p, S_move) /\ "val" \in DOMAIN p.d /\ p.d["val"] \in NumericVals

\* C1: a move command (any letter case) with a number or numeric string writes
\* the value as a float to USER_RAM1_F32 and then 2 to USER_RAM0_U16, the
\* position strictly before the flag, and makes no other transport write
\* (the transport raising no error)
C1_MoveWritesPositionThenFlag ==
    (Handled /\ IsNumericMove(event.p) /\ last.exc # "LJMError") =>
        /\ last.exc = "none"
        /\ hwlog = << W("USER_RAM1_F32", JFloat(FloatOfVal(event.p.d["val"]))),
                      W("USER_RAM0_U16", JInt(2)) >>

C1_Witness ==
    /\ Handled
    /\ event.p = MkDict(JStr(S_MOVE), JStr(S_45p0), Absent)
    /\ hwlog = << W("USER_RAM1_F32", JFloat(F(46080))), W("USER_RAM0_U16", JInt(2)) >>

\* C2: a document whose lower-cased "cmd" is not in the antenna command table
\* makes execute_cmd log an error, issue no transport call and return normally
C2_UnknownCommandIgnored ==
    (Handled /\ HasCmdName(event.p) /\ StrLower(event.p.d["cmd"].s) \notin LjAntCmds) =>
        /\ hwlog = <<>>
        /\ last.exc = "none"
        /\ last.log = <<"error">>

C2_Witness ==
    /\ Handled
    /\ event.p = MkDict(JStr(S_bogus), Absent, Absent)
    /\ hwlog = <<>>
    /\ last.log = <<"error">>

\* the malformed deliveries of C3
Malformed(p) ==
    \/ p.kind \in {"invalid", "other"}
    \/ p.kind = "dict" /\ "cmd" \notin DOMAIN p.d
    \/ p.kind = "dict" /\ Cardinality(DOMAIN p.d) > 1 /\ "val" \notin DOMAIN p.d
    \/ HasCmdName(p) /\ StrLower(p.d["cmd"].s) \in LjAntCmds /\ "val" \notin DOMAIN p.d

\* C3: a malformed command delivered through either command watch is logged
\* and dropped: cmd_callback issues no transport write and no exception
\* leaves it
C3_MalformedDropped ==
    (Handled /\ Malformed(event.p)) => (hwlog = <<>> /\ last.exc = "none")

\* C4: {"cmd": "halt"} with no "val" is accepted: exactly one transport write,
\* the halt code 1 to USER_RAM0_U16, and no position write
C4_HaltWithoutArgument ==
    (Handled /\ IsCmd(event.p, S_halt) /\ DOMAIN event.p.d = {"cmd"}
        /\ last.exc # "LJMError") =>
        /\ last.exc = "none"
        /\ hwlog = << W("USER_RAM0_U16", JInt(1)) >>

-----------------------------------------------------------------------------
(* The calibration writer called directly, repeatedly with one table *)

\* tables hold at most this many values; the flash has as many slots
MaxLen == 2

\* the writer is called at most this many times in a row
MaxCalls == 2

\* 1.0, a value within 0.001 of it, NaN, and a value FLOAT32 cannot hold to
\* within 0.001 (2^16 + 2/1024)
CalVals == { F(Unit), F(Unit + 1), NaN, F(2 ^ 26 + 2) }

RECURSIVE SeqsOfLen(_, _)
SeqsOfLen(S, n) ==
    IF n = 0 THEN { <<>> }
    ELSE { Append(q, x) : q \in SeqsOfLen(S, n - 1), x \in S }

CalTables == UNION { SeqsOfLen(CalVals, n) : n \in 0..MaxLen }

\* what the flash can hold: FLOAT32 values and erased slots
FlashContents == SeqsOfLen({ F32(x) : x \in CalVals } \cup {NaN}, MaxLen)

InitCal ==
    /\ RunningSession
    /\ flash \in FlashContents
    /\ flash0 = flash
    /\ calTable \in CalTables
    /\ ncalls = 0
    /\ prev = NoOp
    /\ files = {}
    /\ event = IdleEvent
    /\ fault = 0
    /\ hwlog = <<>>
    /\ last = NoOp
    /\ watcher = NoWatcher

\* the transport calls of a plan at which an LJMError is injected: the first
\* call, the flash erase and the last call (0: none fails)
FaultPoints(plan) ==
    {0} \cup ({1, Len(plan)} \cap (1..Len(plan)))
        \cup {i \in 1..Len(plan) : plan[i].reg = "INTERNAL_FLASH_ERASE"}

\* write_config_to_flash(lj_handle, calTable); a transport call may fail
CallWriteConfig ==
    /\ ncalls < MaxCalls
    /\ \E k \in FaultPoints(WriteConfigPlan(flash, calTable)) :
          LET r == WriteConfigToFlash(flash, calTable, k)
          IN  /\ flash' = r.flash
              /\ hwlog' = r.hw
              /\ last' = [op |-> "write_config_to_flash", exc |-> r.exc, log |-> r.log,
                          open |-> storeOpen]
              /\ fault' = k
    /\ flash0' = flash
    /\ prev' = last
    /\ ncalls' = ncalls + 1
    /\ UNCHANGED <<disc, watcher, callVars, gcVars, timeVars, calTable, cmdVars, sessVars>>

NextCal == CallWriteConfig

SpecCal == InitCal /\ [][NextCal]_vars

-----------------------------------------------------------------------------
(* Claims about the calibration writer, checked under SpecCal *)

WroteFlash(log) ==
    \E i \in 1..Len(log) : log[i].reg \in {"INTERNAL_FLASH_ERASE", "INTERNAL_FLASH_WRITE"}

TouchedScript(log) == \E i \in 1..Len(log) : log[i].reg = "LUA_RUN"

\* the call just made repeats the preceding call, which returned normally
SecondCallInARow ==
    /\ ncalls >= 2
    /\ last.op = "write_config_to_flash"
    /\ prev.op = "write_config_to_flash"
    /\ prev.exc = "none"

AbsInt(n) == IF n < 0 THEN 0 - n ELSE n

\* FLOAT32 holds x to within 0.001
HeldWithinTolerance(x) ==
    x.k = "num" /\ AbsInt(F32(x).m - x.m) <= Unit \div 1000

\* C5 as stated: the second of two calls in a row with the same table issues
\* no flash erase, no flash write and no script restart
C5_SecondCallIsNoOp ==
    SecondCallInARow => (~WroteFlash(hwlog) /\ ~TouchedScript(hwlog))

\* C5 as amended: the same, for a table every value of which is a number (not
\* NaN) that the FLOAT32 flash slot holds to within 0.001
C5_SecondCallIsNoOpForStorableTable ==
    (SecondCallInARow /\ \A i \in 1..Len(calTable) : HeldWithinTolerance(calTable[i]))
        => (~WroteFlash(hwlog) /\ ~TouchedScript(hwlog))

C5_Witness ==
    /\ SecondCallInARow
    /\ calTable = << F(Unit + 1), F(Unit) >>
    /\ prev.log = <<"info", "info", "info">>
    /\ flash = calTable
    /\ hwlog = ReadCalls(2)

\* C6: a NaN in the candidate table at an index whose stored value is not NaN
\* makes the writer erase and write the flash
C6_CandidateNaNForcesWrite ==
    (/\ last.op = "write_config_to_flash"
     /\ fault = 0
     /\ \E i \in 1..Len(calTable) : calTable[i].k = "nan" /\ flash0[i].k # "nan")
        => WroteFlash(hwlog)

\* every stored value read back matches its candidate within 0.001, none NaN
AllWithinTolerance ==
    \A i \in 1..Len(calTable) :
        /\ flash0[i].k = "num"
        /\ calTable[i].k = "num"
        /\ AbsInt(flash0[i].m - calTable[i].m) <= Unit \div 1000

\* C7: when every stored value matches its candidate within 0.001 the writer
\* issues no erase, no flash write and no script stop or start: its only
\* transport calls are the read-pointer writes and the reads
C7_NoWriteWhenAllMatch ==
    (last.op = "write_config_to_flash" /\ AllWithinTolerance) =>
        /\ \A i \in 1..Len(hwlog) :
              hwlog[i].reg \in {"INTERNAL_FLASH_READ_POINTER", "INTERNAL_FLASH_READ"}
        /\ flash = flash0

C7_Witness ==
    /\ last.op = "write_config_to_flash"
    /\ calTable = << F(Unit), F(Unit + 1) >>
    /\ flash0 = << F(Unit + 1), F(Unit) >>
    /\ hwlog = ReadCalls(2)
    /\ last.exc = "none"

-----------------------------------------------------------------------------
(* Session construction: startup check, initial calibration check *)

RBytes(reg) == [op |-> "eReadNameByteArray", reg |-> reg, a |-> 0, val |-> JNull]
ENames == [op |-> "eNames", reg |-> "A_NAMES", a |-> 0, val |-> JNull]

\* CONF.LUA_DIR + "/antenna_control.lua"
S_antenna_control ==
    LUA_DIR \o <<"/","a","n","t","e","n","n","a","_","c","o","n","t","r","o","l">> \o S_dotlua

\* the file systems an antenna session may be constructed on: without and
\* with the control script in the script directory
AntFileFixtures == { {}, {S_antenna_control} }

\* t7_startup_check: its transport calls on a device whose LUA_RUN reads
\* lua_running; start_fails: the LUA_RUN 1 write inside the try raises LJMError
T7StartupCheck(lua_required, lua_running, start_fails) ==
    LET sc == ValidateFile(S_antenna_control)
        download == ScriptLoad(sc) \o ScriptSaveToFlash(sc) \o ScriptRunOnStartup(sc)
                        \o ScriptRun(sc, FALSE) \o << R("LUA_RUN") >>
        restart == << W("LUA_LOAD_SAVED", JInt(1)) >>
                       \o (IF start_fails THEN download ELSE << W("LUA_RUN", JInt(1)) >>)
                       \o << R("LUA_RUN") >>
    IN  << R("IO_CONFIG_CHECK_FOR_FACTORY"), R("PRODUCT_ID"), R("HARDWARE_VERSION"),
           R("FIRMWARE_VERSION"), R("BOOTLOADER_VERSION"), R("SERIAL_NUMBER"),
           RBytes("DEVICE_NAME_DEFAULT"), R("LUA_RUN") >>
        \o (IF ~lua_running /\ lua_required THEN restart ELSE <<>>)
        \o << RAddr("46000") >>

\* _init_ant_labjack up to the calibration check: direction registers, analog
\* range, startup check
InitAntCalls(lua_running, start_fails) ==
    << W("FIO_DIRECTION", JInt(0)), W("EIO_DIRECTION", JInt(30)),
       W("CIO_DIRECTION", JInt(0)), W("MIO_DIRECTION", JInt(0)),
       W("AIN_ALL_RANGE", JFloat(F(10 * Unit))) >>
    \o T7StartupCheck(TRUE, lua_running, start_fails)

\* a call of write_config_to_flash with the positional arguments args on a
\* device whose flash is fl: Python
\* raises TypeError before the body runs when the number of positional
\* arguments is not the number of parameters
CallWriteConfigToFlash(fl, args, k) ==
    IF Len(args) # WriteConfigArity
    THEN [hw |-> <<>>, exc |-> "TypeError", log |-> <<>>, flash |-> fl]
    ELSE WriteConfigToFlash(fl, args[2], k)

\* the arguments _check_cal and _execute_cal pass to write_config_to_flash
CalWriterArgs(cal_table) == << "lj_handle", "ant_num", cal_table >>

\* _check_cal with val the value under the calibration key
CheckCal(valid, val, fl, k) ==
    IF ~valid THEN [hw |-> <<>>, exc |-> "none", log |-> <<>>, flash |-> fl]
    ELSE IF val.has THEN CallWriteConfigToFlash(fl, CalWriterArgs(val.table), k)
    ELSE [hw |-> <<>>, exc |-> "none", log |-> <<"error">>, flash |-> fl]

\* _execute_cal(cal_info)
ExecuteCal(valid, cal_info, fl, k) ==
    IF valid
    THEN LET r == CallWriteConfigToFlash(fl, CalWriterArgs(cal_info.table), k)
         IN  IF r.exc = "none" THEN [r EXCEPT !.log = r.log \o <<"info">>] ELSE r
    ELSE [hw |-> <<>>, exc |-> "none", log |-> <<"error">>, flash |-> fl]

-----------------------------------------------------------------------------
(* The antenna session from construction to the end of run() *)

\* the poll loop starts at most this many iterations
MaxPolls == 2

\* time.time() counts microseconds here
Second == 10 ^ 6

\* Constants.POLLING_INTERVAL
POLLING_INTERVAL == 1

\* f"{Time.now().mjd:.8f}": 1e-8 day, in microseconds
StampQuantum == 864

\* the 'time' monitor point read at time t: the modified Julian day rounded
\* to 8 decimals, counted in units of 1e-8 day from the Unix epoch (which is
\* a whole modified Julian day)
Stamp(t) == (t + StampQuantum \div 2) \div StampQuantum

\* run(): next_time computed at time t
NextTime(t) ==
    ((t \div (POLLING_INTERVAL * Second)) + 1) * (POLLING_INTERVAL * Second)

\* the phases of the polling interval at which a session thread may start:
\* on a boundary, in the middle, 10 microseconds before a boundary
StartTimes == { 0, Second \div 2, Second - 10 }

\* send_to_etcd(key, mon_data) with the store calls made so far
SendToEtcdAlways(valid, log, what) == Append(log, what)
SendToEtcd(valid, log, what) == IF valid THEN Append(log, what) ELSE log

\* the order in which __init__ installs the command watches
CmdWatchOrder == << "cmd", "cmd_all" >>

\* __init__: the store client and the three watches.  The first n1 command
\* watches are installed before add_watch_callback fails (2: neither fails);
\* ok2: installing the calibration watch succeeds
AntInstallWatches ==
    /\ apc = "ctor"
    /\ \E n1 \in 0..Len(CmdWatchOrder), ok2 \in BOOLEAN :
          LET ids == { CmdWatchOrder[i] : i \in 1..n1 }
                        \cup (IF ok2 THEN {"cal"} ELSE {})
          IN  /\ watchIds' = ids
              /\ active' = ids
              /\ etcd_valid' = ok2
    /\ apc' = "init"
    /\ UNCHANGED <<disc, watcher, callVars, gcVars, timeVars, astop, iters, sdIdx, storeOpen, storelog, calKey, calEvent,
                   bebVars, hpc, calVars, cmdVars, fault, hwlog, last>>

\* __init__ from self.valid = True: _init_ant_labjack (with _check_cal) and
\* the publication of the startup monitor points
AntInit ==
    /\ apc = "init"
    /\ \E lua_running \in BOOLEAN, start_fails \in BOOLEAN, k \in 0..MaxFault :
          /\ start_fails => ~lua_running
          /\ LET pre == ApplyFault(Res(InitAntCalls(lua_running, start_fails), "none", <<>>), k)
                 cal == IF pre.exc = "none" THEN CheckCal(etcd_valid, calKey, flash, 0)
                        ELSE [hw |-> <<>>, exc |-> pre.exc, log |-> <<>>, flash |-> flash]
             IN  /\ hwlog' = pre.hw \o cal.hw
                 /\ flash' = cal.flash
                 /\ last' = [op |-> "init", exc |-> cal.exc, log |-> cal.log,
                             open |-> storeOpen]
                 /\ fault' = IF pre.exc = "LJMError" THEN k ELSE 0
                 /\ apc' = IF cal.exc = "none" THEN "ready" ELSE "ctor_raised"
                 /\ storelog' = IF cal.exc = "none"
                                THEN SendToEtcd(etcd_valid, storelog, "put_startup")
                                ELSE storelog
                 /\ calTable' = IF pre.exc = "none" /\ etcd_valid /\ calKey.has
                                THEN calKey.table ELSE calTable
    /\ flash0' = flash
    /\ UNCHANGED <<disc, watcher, callVars, gcVars, timeVars, astop, iters, etcd_valid, watchIds, sdIdx, active, storeOpen,
                   calKey, calEvent, bebVars, hpc, ncalls, prev, cmdVars>>

\* Hwmc.run after discovery: a thread is started on run() of every session
HwmcStartThreads ==
    /\ hpc = "discover"
    /\ apc = "ready"
    /\ bpc \in {"none", "ready"}
    /\ apc' = "loop_top"
    /\ bpc' = IF bpc = "ready" THEN "loop_top" ELSE bpc
    /\ hpc' = "run"
    /\ clock' \in StartTimes
    /\ UNCHANGED <<disc, watcher, callVars, gcVars, monlog, astop, iters, etcd_valid, watchIds, sdIdx, storeVars, bstop, biters,
                   betcd_valid, bstorelog, calVars, cmdVars, fault, hwlog, last>>

\* the loop condition of run(): while not self.stop
LoopContinuesAlways(stop) == TRUE
LoopContinues(stop) == ~stop

\* run(): the test at the top of the poll loop
AntLoopTest ==
    /\ apc = "loop_top"
    /\ IF LoopContinues(astop)
       THEN /\ iters < MaxPolls
            /\ apc' = "poll"
            /\ iters' = iters + 1
            /\ sdIdx' = sdIdx
       ELSE /\ apc' = "shutdown"
            /\ iters' = iters
            /\ sdIdx' = 1
    /\ UNCHANGED <<disc, watcher, callVars, gcVars, timeVars, astop, etcd_valid, watchIds, storeVars, bebVars, hpc,
                   calVars, cmdVars, fault, hwlog, last>>

\* run(): one iteration, _get_data then send_to_etcd then the sleep, which
\* ends at next_time; the calls take no time.  An LJMError of the batched
\* read leaves run()
AntPoll ==
    /\ apc = "poll"
    /\ \E k \in 0..1 :
          LET r == ApplyFault(Res(<< ENames >>, "none", <<>>), k)
          IN  /\ hwlog' = r.hw
              /\ last' = [op |-> "poll", exc |-> r.exc, log |-> <<>>, open |-> storeOpen]
              /\ fault' = k
              /\ apc' = IF r.exc = "none" THEN "loop_top" ELSE "crashed"
              /\ storelog' = IF r.exc = "none"
                             THEN SendToEtcd(etcd_valid, storelog, "put") ELSE storelog
              /\ monlog' = IF r.exc = "none" /\ etcd_valid
                           THEN Append(monlog, Stamp(clock)) ELSE monlog
              /\ clock' = IF r.exc = "none" THEN NextTime(clock) ELSE clock
    /\ UNCHANGED <<disc, watcher, callVars, gcVars, astop, iters, etcd_valid, watchIds, sdIdx, active, storeOpen,
                   calKey, calEvent, bebVars, hpc, calVars, cmdVars>>

\* run() after the loop, when self.etcd_valid: the store calls in source order
ShutdownOrderCloseFirst == << "close", "cmd", "cmd_all", "cal" >>
ShutdownOrder == << "cmd", "cmd_all", "cal", "close" >>

\* run(): the next store call of the shutdown sequence; a watch is cancelled
\* only if its id attribute is not None
AntShutdownStep ==
    /\ apc = "shutdown"
    /\ etcd_valid
    /\ sdIdx <= Len(ShutdownOrder)
    /\ LET what == ShutdownOrder[sdIdx]
       IN  IF what = "close"
           THEN /\ storeOpen' = FALSE
                /\ storelog' = Append(storelog, "close")
                /\ active' = active
           ELSE IF what \in watchIds
           THEN /\ active' = active \ {what}
                /\ storelog' = Append(storelog, what)
                /\ storeOpen' = storeOpen
           ELSE UNCHANGED <<active, storelog, storeOpen>>
    /\ sdIdx' = sdIdx + 1
    /\ UNCHANGED <<disc, watcher, callVars, gcVars, timeVars, apc, astop, iters, etcd_valid, watchIds, calKey, calEvent,
                   bebVars, hpc, calVars, cmdVars, fault, hwlog, last>>

\* run() returns
AntReturn ==
    /\ apc = "shutdown"
    /\ ~etcd_valid \/ sdIdx > Len(ShutdownOrder)
    /\ apc' = "stopped"
    /\ UNCHANGED <<disc, watcher, callVars, gcVars, timeVars, astop, iters, etcd_valid, watchIds, sdIdx, storeVars,
                   bebVars, hpc, calVars, cmdVars, fault, hwlog, last>>

\* Hwmc.stop: stop_thread() of every antenna session
HwmcStopAnts ==
    /\ hpc = "run"
    /\ astop' = TRUE
    /\ hpc' = "stop_bebs"
    /\ UNCHANGED <<disc, watcher, callVars, gcVars, timeVars, apc, iters, etcd_valid, watchIds, sdIdx, storeVars,
                   bebVars, calVars, cmdVars, fault, hwlog, last>>

\* Hwmc.stop: stop_thread() of every backend session
HwmcStopBebs ==
    /\ hpc = "stop_bebs"
    /\ bstop' = (bpc # "none")
    /\ hpc' = "stopped"
    /\ UNCHANGED <<disc, watcher, callVars, gcVars, timeVars, antVars, storeVars, bpc, biters, betcd_valid, bstorelog,
                   calVars, cmdVars, fault, hwlog, last>>

\* self.valid of the antenna session: True from the line before
\* _init_ant_labjack is called
AntValid == apc \notin {"ctor", "init"}

\* __del__ of the antenna session.  Hwmc.ants refers to the session until the
\* process ends, and the process ends only after stop() and after every
\* session thread has ended
AntDel ==
    /\ hpc = "stopped"
    /\ apc \in {"stopped", "crashed"}
    /\ bpc \in {"none", "stopped", "crashed"}
    /\ "ant" \notin destroyed
    /\ destroyed' = destroyed \cup {"ant"}
    /\ ljclose' = IF AntValid THEN [ljclose EXCEPT !.ant = @ + 1] ELSE ljclose
    /\ UNCHANGED <<disc, watcher, callVars, timeVars, sessVars, calVars, cmdVars, fault, hwlog, last>>

-----------------------------------------------------------------------------
(* The calibration watch *)

\* the tables clients put under the calibration key
LifeCalTables == { << F(Unit) >>, << F(Unit), F(2 * Unit) >> }

\* a client puts a table under /cal/ant/<n>; the watch, if installed and not
\* cancelled, will deliver the change
PutCal ==
    /\ ~calEvent.has
    /\ "cal" \in active
    /\ \E t \in LifeCalTables :
          /\ calKey # CalDoc(t)
          /\ calKey' = CalDoc(t)
          /\ calEvent' = CalDoc(t)
    /\ UNCHANGED <<disc, watcher, callVars, gcVars, timeVars, antVars, active, storeOpen, storelog, bebVars, hpc,
                   calVars, cmdVars, fault, hwlog, last>>

\* the calibration watch fires: cal_callback(event)
CalCallback ==
    /\ calEvent.has
    /\ "cal" \in active
    /\ \E k \in 0..MaxFault :
          LET r == ExecuteCal(etcd_valid, calEvent, flash, k)
          IN  /\ flash' = r.flash
              /\ hwlog' = r.hw
              /\ last' = [op |-> "cal_callback", exc |-> r.exc, log |-> r.log,
                          open |-> storeOpen]
              /\ fault' = IF r.exc = "LJMError" THEN k ELSE 0
    /\ calTable' = IF etcd_valid THEN calEvent.table ELSE calTable
    /\ flash0' = flash
    /\ calEvent' = CalAbsent
    /\ UNCHANGED <<disc, watcher, callVars, gcVars, timeVars, antVars, active, storeOpen, storelog, calKey, bebVars, hpc,
                   ncalls, prev, cmdVars>>

-----------------------------------------------------------------------------
(* One antenna session, from discovery to the end of its thread, with the   *)
(* clients of the store                                                     *)

\* the commands clients put while the session lives
LifeCmds == { MkDict(JStr(S_halt), JInt(0), Absent) }

PutLifeCmd == PutCmd(LifeCmds)

Init ==
    /\ apc = "ctor" /\ astop = FALSE /\ iters = 0 /\ etcd_valid = TRUE
    /\ watchIds = {} /\ sdIdx = 1
    /\ active = {} /\ storeOpen = TRUE /\ storelog = <<>>
    /\ calKey \in {CalAbsent} \cup { CalDoc(t) : t \in LifeCalTables }
    /\ calEvent = CalAbsent
    /\ bpc = "none" /\ bstop = FALSE /\ biters = 0 /\ betcd_valid = FALSE
    /\ bstorelog = <<>> /\ hpc = "discover"
    /\ disc = NoDisc /\ destroyed = {} /\ ljclose = NoneClosed
    /\ fnIn = NoCall /\ fnOut = NoCall
    /\ clock = 0 /\ monlog = <<>>
    /\ flash = << NaN, NaN >> /\ flash0 = flash
    /\ calTable = <<>> /\ ncalls = 0 /\ prev = NoOp
    /\ files \in AntFileFixtures
    /\ event = IdleEvent
    /\ fault = 0
    /\ hwlog = <<>>
    /\ last = NoOp
    /\ watcher = NoWatcher

Next ==
    \/ AntInstallWatches
    \/ AntInit
    \/ HwmcStartThreads
    \/ AntLoopTest
    \/ AntPoll
    \/ AntShutdownStep
    \/ AntReturn
    \/ HwmcStopAnts
    \/ HwmcStopBebs
    \/ AntDel
    \/ PutLifeCmd
    \/ CmdCallback
    \/ PutCal
    \/ CalCallback

Spec == Init /\ [][Next]_vars

-----------------------------------------------------------------------------
(* The backend session's thread *)

RArr(reg) == [op |-> "eReadNameArray", reg |-> reg, a |-> 0, val |-> JNull]

\* DsaBebLabJack.BEB_PER_LJ
BEB_PER_LJ == 10

\* _get_data of the backend session
BebReadCalls == << RArr("AIN0"), R("TEMPERATURE_DEVICE_K"), RArr("AIN48") >>

\* run(): the test at the top of the poll loop
BebLoopTest ==
    /\ bpc = "loop_top"
    /\ IF LoopContinues(bstop)
       THEN /\ biters < MaxPolls
            /\ bpc' = "poll"
            /\ biters' = biters + 1
       ELSE /\ bpc' = "disconnect"
            /\ biters' = biters
    /\ UNCHANGED <<disc, watcher, callVars, gcVars, timeVars, antVars, storeVars, bstop, betcd_valid, bstorelog, hpc,
                   calVars, cmdVars, fault, hwlog, last>>

\* run(): one iteration, the three reads then one publication per served
\* antenna then the sleep; an LJMError of a read leaves run()
BebPoll ==
    /\ bpc = "poll"
    /\ \E k \in 0..MaxFault :
          LET r == ApplyFault(Res(BebReadCalls, "none", <<>>), k)
          IN  /\ hwlog' = r.hw
              /\ last' = [op |-> "beb_poll", exc |-> r.exc, log |-> <<>>,
                          open |-> storeOpen]
              /\ fault' = IF r.exc = "LJMError" THEN k ELSE 0
              /\ bpc' = IF r.exc = "none" THEN "loop_top" ELSE "crashed"
              /\ bstorelog' = IF r.exc = "none" /\ betcd_valid
                              THEN bstorelog \o [i \in 1..BEB_PER_LJ |-> "put"]
                              ELSE bstorelog
    /\ UNCHANGED <<disc, watcher, callVars, gcVars, timeVars, antVars, storeVars, bstop, biters, betcd_valid, hpc,
                   calVars, cmdVars>>

\* run() after the loop: the store client is closed, then run() returns
BebDisconnect ==
    /\ bpc = "disconnect"
    /\ bstorelog' = Append(bstorelog, "close")
    /\ bpc' = "stopped"
    /\ UNCHANGED <<disc, watcher, callVars, gcVars, timeVars, antVars, storeVars, bstop, biters, betcd_valid, hpc,
                   calVars, cmdVars, fault, hwlog, last>>

\* self.valid of the backend session
BebValid == bpc \notin {"none", "ctor"}

\* __del__ of the backend session, when the process ends
BebDel ==
    /\ hpc = "stopped"
    /\ apc \in {"stopped", "crashed"}
    /\ bpc \in {"stopped", "crashed"}
    /\ "beb" \notin destroyed
    /\ destroyed' = destroyed \cup {"beb"}
    /\ ljclose' = IF BebValid THEN [ljclose EXCEPT !.beb = @ + 1] ELSE ljclose
    /\ UNCHANGED <<disc, watcher, callVars, timeVars, sessVars, calVars, cmdVars, fault, hwlog, last>>

-----------------------------------------------------------------------------
(* Hwmc.stop with one antenna and one backend session, both constructed and *)
(* their threads started                                                    *)

\* the watch ids an antenna constructor can leave, with self.etcd_valid
WatchOutcomes ==
    { [ids |-> { CmdWatchOrder[i] : i \in 1..n1 } \cup (IF ok2 THEN {"cal"} ELSE {}),
       valid |-> ok2] : n1 \in 0..Len(CmdWatchOrder), ok2 \in BOOLEAN }

InitStop ==
    /\ apc = "loop_top" /\ astop = FALSE /\ iters = 0 /\ sdIdx = 1
    /\ \E w \in WatchOutcomes :
          /\ watchIds = w.ids /\ active = w.ids /\ etcd_valid = w.valid
          /\ storelog = IF w.valid THEN << "put_startup" >> ELSE <<>>
    /\ storeOpen = TRUE
    /\ calKey = CalAbsent /\ calEvent = CalAbsent
    /\ bpc = "loop_top" /\ bstop = FALSE /\ biters = 0
    /\ betcd_valid \in BOOLEAN
    /\ bstorelog = IF betcd_valid THEN << "put" >> ELSE <<>>
    /\ hpc = "run"
    /\ disc = NoDisc /\ destroyed = {} /\ ljclose = NoneClosed
    /\ fnIn = NoCall /\ fnOut = NoCall
    /\ clock \in StartTimes /\ monlog = <<>>
    /\ flash = << NaN, NaN >> /\ flash0 = flash
    /\ calTable = <<>> /\ ncalls = 0 /\ prev = NoOp
    /\ files = {}
    /\ event = IdleEvent
    /\ fault = 0
    /\ hwlog = <<>>
    /\ last = NoOp
    /\ watcher = NoWatcher

NextStop ==
    \/ AntLoopTest
    \/ AntPoll
    \/ AntShutdownStep
    \/ AntReturn
    \/ BebLoopTest
    \/ BebPoll
    \/ BebDisconnect
    \/ HwmcStopAnts
    \/ HwmcStopBebs
    \/ AntDel
    \/ BebDel

\* every thread that can take a step eventually takes one, and stop(), once
\* called, runs to its end
SpecStop ==
    /\ InitStop
    /\ [][NextStop]_vars
    /\ WF_vars(AntLoopTest) /\ WF_vars(AntPoll)
    /\ WF_vars(AntShutdownStep) /\ WF_vars(AntReturn)
    /\ WF_vars(BebLoopTest) /\ WF_vars(BebPoll) /\ WF_vars(BebDisconnect)
    /\ WF_vars(HwmcStopBebs)

-----------------------------------------------------------------------------
(* Claims about the calibration watch and the shutdown sequence, checked    *)
(* under Spec                                                               *)

\* C8: when the calibration watch fires, and at initialization when the
\* calibration key holds a table, the session hands the table to the
\* calibration writer on its own connection: the call returns and, the
\* transport raising no error, the flash holds the table
C8_CalTableIsApplied ==
    (last.op \in {"cal_callback", "init"} /\ calTable # <<>> /\ fault = 0) =>
        /\ last.exc = "none"
        /\ \A i \in 1..Len(calTable) : flash[i] = F32(calTable[i])

\* the cancel_watch and close calls of the session, in the order made
StoreCalls == SelectSeq(storelog, LAMBDA c : c \notin {"put", "put_startup"})

\* the place of a store call in the order per-antenna command, broadcast
\* command, calibration, close
Rank(c) ==
    CASE c = "cmd" -> 1 [] c = "cmd_all" -> 2 [] c = "cal" -> 3 [] OTHER -> 4

\* C10: the session cancels its watches in the order per-antenna command,
\* broadcast command, calibration, and closes the store connection only after
\* every watch it installed has been cancelled; no command or calibration
\* callback runs while the connection is closed
C10_WatchesCancelledInOrderBeforeClose ==
    /\ \A i, j \in 1..Len(StoreCalls) :
          i < j => Rank(StoreCalls[i]) < Rank(StoreCalls[j])
    /\ ~storeOpen => active = {}
    /\ last.op \in {"cmd_callback", "cal_callback"} => last.open
    /\ (apc = "stopped" /\ etcd_valid) =>
          StoreCalls = SelectSeq(<< "cmd", "cmd_all", "cal" >>, LAMBDA c : c \in watchIds)
                          \o << "close" >>

C10_Witness ==
    /\ apc = "stopped"
    /\ watchIds = {"cmd", "cmd_all", "cal"}
    /\ StoreCalls = << "cmd", "cmd_all", "cal", "close" >>
    /\ ~storeOpen
    /\ last.op = "cmd_callback"

-----------------------------------------------------------------------------
(* Claims about stopping, checked under SpecStop *)

\* C9: once stop_thread() has set the stop flag of a running antenna or
\* backend session, the iteration in progress is completed (the thread leaves
\* it only for the top of the loop, or by an error of a hardware call), no
\* further iteration is started, and run() returns unless a hardware call
\* raised
C9_StopIsCooperativeAndEffective ==
    /\ [][/\ astop => iters' = iters
          /\ bstop => biters' = biters
          /\ apc = "poll" => apc' \in {"poll", "loop_top", "crashed"}
          /\ bpc = "poll" => bpc' \in {"poll", "loop_top", "crashed"}]_vars
    /\ astop ~> (apc \in {"stopped", "crashed"})
    /\ bstop ~> (bpc \in {"stopped", "crashed"})

C9_Witness ==
    /\ astop /\ apc = "stopped" /\ iters >= 1
    /\ bstop /\ bpc = "stopped" /\ biters >= 1
    /\ last.exc = "none"

\* C11: when run() of an antenna or backend session has returned after a stop
\* request, ljm.close has been called on the session's handle, and it is
\* never called more than once
C11_HandleReleasedAtStopped ==
    /\ apc = "stopped" => ljclose.ant = 1
    /\ bpc = "stopped" => ljclose.beb = 1
    /\ ljclose.ant <= 1 /\ ljclose.beb <= 1

-----------------------------------------------------------------------------
(* Claims about errors during construction and polling, checked under Spec *)

\* C12: an LJMError raised by the batched read of a poll cycle or by a
\* register write of a command never leaves the poll loop or the command
\* callback: the thread goes on to the next poll cycle
C12_TransportErrorIsCaught ==
    /\ apc # "crashed"
    /\ last.op \in {"poll", "cmd_callback"} => last.exc # "LJMError"

\* the constructor has run and every add_watch_callback failed with
\* ConnectionFailedError: the store could not be reached
StoreFailed == apc # "ctor" /\ ~etcd_valid /\ watchIds = {}

\* C13: a session constructed while the store cannot be reached is not failed
\* by that (its constructor raises only for a hardware error), holds no
\* watch, never publishes and never touches the store connection; destroying
\* it closes its hardware handle once
C13_StoreFailureLeavesSessionAlive ==
    StoreFailed =>
        /\ active = {}
        /\ storelog = <<>> /\ monlog = <<>>
        /\ storeOpen
        /\ apc = "ctor_raised" => (last.op = "init" /\ last.exc = "LJMError")
        /\ "ant" \in destroyed => ljclose.ant = 1

C13_Witness ==
    /\ StoreFailed
    /\ apc = "stopped" /\ iters = MaxPolls
    /\ "ant" \in destroyed
    /\ storelog = <<>>

-----------------------------------------------------------------------------
(* Discovery (DiscoverT7.__init__) *)

\* Constants.NUM_SIM
NUM_SIM == 3

\* Constants.NULL_TYPE, ANT_TYPE, BEB_TYPE
NULL_TYPE == 0
ANT_TYPE == 1
BEB_TYPE == 2

\* live discovery lists at most this many modules
MaxDevs == 3

\* a module on the network: whether ljm.open succeeds on it and what its
\* FIO_STATE register reads (IdError: the read raises LJMError)
IdError == 0 - 1
Dev(open, id) == [open |-> open, id |-> id]

\* _create_sim_devices: 2 * NUM_SIM demo-mode modules, which always open
SimDevices == [i \in 1..(2 * NUM_SIM) |-> Dev(TRUE, 0)]

\* the modules of the live fixtures: one that cannot be opened, one whose id
\* cannot be read, antennas 1 and 2, backends whose id words give the locations
\* 1 and 2
LiveDevs == { Dev(FALSE, 0), Dev(TRUE, IdError), Dev(TRUE, 1), Dev(TRUE, 2),
              Dev(TRUE, 129), Dev(TRUE, 130) }

LiveLists == UNION { SeqsOfLen(LiveDevs, n) : n \in 0..MaxDevs }

\* the values the eight-bit FIO_STATE register can read, and a network with
\* one module for each of them
IdWords == 0..255
SingleLists == { <<Dev(TRUE, v)>> : v \in IdWords }

\* _get_type_and_location keeping the whole word as the location
TypeAndLocationWholeWord(id) ==
    IF id = IdError THEN [type |-> NULL_TYPE, loc |-> 0]
    ELSE [type |-> IF id < 128 THEN ANT_TYPE ELSE BEB_TYPE, loc |-> id]

\* _get_type_and_location
TypeAndLocation(id) ==
    IF id = IdError THEN [type |-> NULL_TYPE, loc |-> 0]
    ELSE [type |-> IF id < 128 THEN ANT_TYPE ELSE BEB_TYPE, loc |-> id % 128]

\* the if / elif on lj_type with a final else that constructs a backend session
MakesSessionAlways(lj_type) == TRUE

\* the if / elif on lj_type: a session is constructed for ANT_TYPE and for
\* BEB_TYPE, nothing is done for any other type
MakesSession(lj_type) == lj_type = ANT_TYPE \/ lj_type = BEB_TYPE

\* self.ants[loc] = session, the session named by the index of its module
MapPut(m, loc, i) == [l \in DOMAIN m \cup {loc} |-> IF l = loc THEN i ELSE m[l]]

EmptyMap == [l \in {} |-> 0]

\* the counter after an open failure: self.num_found -= self.num_found
AfterOpenFailure(num_found) == num_found - num_found

\* the simulated backend number after a backend module: sim_beb_num += 10
NextSimBebBy1(n) == n + 1
NextSimBeb(n) == n + 10

\* DiscoverT7(etcd_endpoint, sim) about to run.  list_ok: ljm.listAll returns;
\* devs: the modules it lists; created: the sessions constructed so far, by
\* type and number, in order
DiscStart(sim, list_ok, devs) ==
    [pc |-> "start", sim |-> sim, list_ok |-> list_ok, devs |-> devs,
     n |-> 0, num_found |-> 0, i |-> 0,
     ants |-> EmptyMap, bebs |-> EmptyMap, num_ant |-> 0, num_beb |-> 0,
     sim_ant_num |-> 1, sim_beb_num |-> 1, created |-> <<>>]

nonDiscVars == <<sessVars, watcher, callVars, gcVars, timeVars, calVars, cmdVars, fault, hwlog, last>>

\* no session exists yet
NoSessions ==
    /\ apc = "none" /\ astop = FALSE /\ iters = 0 /\ etcd_valid = TRUE
    /\ watchIds = {} /\ sdIdx = 1
    /\ active = {} /\ storeOpen = TRUE /\ storelog = <<>>
    /\ calKey = CalAbsent /\ calEvent = CalAbsent
    /\ bpc = "none" /\ bstop = FALSE /\ biters = 0 /\ betcd_valid = FALSE
    /\ bstorelog = <<>> /\ hpc = "discover"
    /\ destroyed = {} /\ ljclose = NoneClosed
    /\ fnIn = NoCall /\ fnOut = NoCall
    /\ clock = 0 /\ monlog = <<>>
    /\ flash = <<>> /\ flash0 = <<>> /\ calTable = <<>> /\ ncalls = 0 /\ prev = NoOp
    /\ files = {}
    /\ event = IdleEvent
    /\ fault = 0
    /\ hwlog = <<>>
    /\ last = NoOp
    /\ watcher = NoWatcher

InitDisc ==
    /\ NoSessions
    /\ disc \in { DiscStart(TRUE, TRUE, <<>>), DiscStart(FALSE, FALSE, <<>>) }
                 \cup { DiscStart(FALSE, TRUE, devs) : devs \in LiveLists \cup SingleLists }

\* __init__ up to the loop: _create_sim_devices or _find_devices, which
\* re-raises the LJMError of ljm.listAll
DiscFind ==
    /\ disc.pc = "start"
    /\ disc' =
         IF ~disc.sim /\ ~disc.list_ok THEN [disc EXCEPT !.pc = "raised"]
         ELSE LET devs == IF disc.sim THEN SimDevices ELSE disc.devs
                  nf   == IF disc.sim THEN 2 * NUM_SIM ELSE Len(devs)
              IN  [disc EXCEPT !.devs = devs, !.num_found = nf, !.n = nf,
                               !.pc = IF nf > 0 THEN "loop" ELSE "done"]
    /\ UNCHANGED nonDiscVars

\* one iteration of the loop over the modules found: open, classify, construct
\* the session.  ctor_ok: the session constructor returns (it raises otherwise,
\* which leaves __init__)
DiscIter ==
    /\ disc.pc = "loop"
    /\ \E ctor_ok \in BOOLEAN :
          LET idx   == disc.i
              d     == disc.devs[idx + 1]
              nf    == IF d.open THEN disc.num_found ELSE AfterOpenFailure(disc.num_found)
              tl    == IF disc.sim
                       THEN IF idx % 2 = 0 THEN [type |-> ANT_TYPE, loc |-> disc.sim_ant_num]
                            ELSE [type |-> BEB_TYPE, loc |-> disc.sim_beb_num]
                       ELSE TypeAndLocation(IF d.open THEN d.id ELSE IdError)
              last_one == idx + 1 = disc.n
              base  == [disc EXCEPT !.i = idx + 1, !.num_found = nf,
                          !.sim_ant_num = IF disc.sim /\ idx % 2 = 0 THEN @ + 1 ELSE @,
                          !.sim_beb_num = IF disc.sim /\ idx % 2 = 1 THEN NextSimBeb(@) ELSE @,
                          !.pc = IF last_one THEN "done" ELSE "loop"]
          IN  /\ (~MakesSession(tl.type) \/ (~d.open /\ nf <= 0)) => ctor_ok
              /\ disc' =
                   IF ~d.open /\ nf <= 0
                   THEN [disc EXCEPT !.i = idx + 1, !.num_found = nf, !.pc = "done"]
                   ELSE IF ~MakesSession(tl.type) THEN base
                   ELSE IF ~ctor_ok THEN [base EXCEPT !.pc = "raised"]
                   ELSE IF tl.type = ANT_TYPE
                   THEN [base EXCEPT !.ants = MapPut(@, tl.loc, idx), !.num_ant = @ + 1,
                                     !.created = Append(@, tl)]
                   ELSE [base EXCEPT !.bebs = MapPut(@, tl.loc, idx), !.num_beb = @ + 1,
                                     !.created = Append(@, tl)]
    /\ UNCHANGED nonDiscVars

NextDisc == DiscFind \/ DiscIter

SpecDisc == InitDisc /\ [][NextDisc]_vars

-----------------------------------------------------------------------------
(* Claims about discovery, checked under SpecDisc *)

\* C14: in a live scan a module that cannot be opened costs the counter of
\* modules one and nothing else: when the scan is over every listed module
\* has had its turn and the counter is the number listed less the failures
C14_OpenFailureDoesNotAbortScan ==
    (disc.pc = "done" /\ ~disc.sim /\ disc.n > 0) =>
        /\ disc.i = disc.n
        /\ disc.num_found =
              disc.n - Cardinality({ j \in 1..disc.i : ~disc.devs[j].open })

\* C15: a simulated discovery that completes has made one session per
\* simulated module, antennas and backends alternating from the first
\* module, the antennas numbered 1..NUM_SIM and the backends 1, 11, 21, ...:
\* the same maps in every run
C15_SimulatedDiscoveryIsFixed ==
    (disc.sim /\ disc.pc = "done") =>
        /\ Len(disc.devs) = 2 * NUM_SIM
        /\ Cardinality(DOMAIN disc.ants) + Cardinality(DOMAIN disc.bebs) = Len(disc.devs)
        /\ DOMAIN disc.ants = 1..NUM_SIM
        /\ DOMAIN disc.bebs = { 1 + 10 * (k - 1) : k \in 1..NUM_SIM }
        /\ \A k \in 1..NUM_SIM :
              /\ disc.ants[k] = 2 * (k - 1)
              /\ disc.bebs[1 + 10 * (k - 1)] = 2 * (k - 1) + 1

C15_Witness ==
    /\ disc.sim /\ disc.pc = "done"
    /\ DOMAIN disc.ants = {1, 2, 3}
    /\ DOMAIN disc.bebs = {1, 11, 21}

\* C16: a live discovery whose listing fails or lists no module ends without
\* raising, with both maps empty
C16_EmptyOrFailedListingGivesEmptyMaps ==
    (~disc.sim /\ disc.pc \notin {"none", "start"} /\ (~disc.list_ok \/ disc.devs = <<>>)) =>
        /\ disc.pc = "done"
        /\ DOMAIN disc.ants = {} /\ DOMAIN disc.bebs = {}

-----------------------------------------------------------------------------
(* Claims about the polling cadence and the order of initialization,
   checked under Spec *)

\* the 'time' fields of the publications made so far increase strictly
StampsIncrease == \A j \in 1..(Len(monlog) - 1) : monlog[j] < monlog[j + 1]

\* every completed poll cycle of a session with a store made one publication
\* and ended on a boundary of the polling interval
OnePublicationPerCycle ==
    /\ (etcd_valid /\ apc # "crashed") =>
          Len(monlog) = (IF apc = "poll" THEN iters - 1 ELSE iters)
    /\ (apc = "loop_top" /\ iters > 0) => clock % (POLLING_INTERVAL * Second) = 0

\* C17: with calls that take no time a running session publishes once per
\* polling interval, at the interval boundaries, and the 'time' fields of
\* successive publications increase strictly
C17_OnePublicationPerIntervalStampsIncrease ==
    OnePublicationPerCycle /\ StampsIncrease

\* the transport calls that apply the table under the calibration key, if any
PendingCalCalls ==
    IF calKey.has THEN WriteConfigToFlash(flash, calKey.table, 0).hw ELSE <<>>

\* C18: a construction with a store and without a transport error sets the
\* I/O directions and the analog range, runs the startup check, applies the
\* pending calibration table and then publishes the startup snapshot, which
\* is the first publication on the monitor key
C18_InitOrderThenSnapshot ==
    [][ (apc = "init" /\ apc' # "init" /\ etcd_valid /\ fault' = 0) =>
            /\ apc' = "ready"
            /\ \E lua_running \in BOOLEAN, start_fails \in BOOLEAN :
                  hwlog' = InitAntCalls(lua_running, start_fails) \o PendingCalCalls
            /\ storelog' = Append(storelog, "put_startup")
            /\ \A j \in 1..Len(storelog) : storelog[j] \notin {"put", "put_startup"}
      ]_vars

-----------------------------------------------------------------------------
(* Claims about script resolution *)

\* a directory joined with a name
PathJoin(dir, name) == dir \o <<"/">> \o name

\* the candidates in the order of the claim
ResolutionOrder(name) ==
    << name, name \o S_dotlua, PathJoin(LUA_DIR, name), PathJoin(LUA_DIR, name \o S_dotlua) >>

\* the first candidate that is an existing file, or the not-found state
Resolved(name) ==
    LET c   == ResolutionOrder(name)
        hit == {i \in 1..Len(c) : c[i] \in files}
    IN  IF hit = {} THEN [err |-> TRUE, script |-> <<>>]
        ELSE [err |-> FALSE, script |-> c[CHOOSE i \in hit : \A j \in hit : i <= j]]

\* the handled event was a script command with a string argument
ScriptCmdHandled ==
    /\ event.st = "handled" /\ last.op = "cmd_callback" /\ fault = 0
    /\ event.p.kind = "dict"
    /\ {"cmd", "val"} \subseteq DOMAIN event.p.d
    /\ event.p.d["cmd"].t = "str" /\ CmdName(event.p.d["cmd"].s) = S_script
    /\ event.p.d["val"].t = "str"

\* C19 (checked under SpecCmd): a script command resolves its name to the
\* first existing file among name, name.lua, directory/name and
\* directory/name.lua and loads that file; when none exists nothing is
\* raised and nothing is written
C19_ScriptResolutionOrder ==
    ScriptCmdHandled =>
        LET name == CmdArgs(event.p.d["val"]).s
            want == Resolved(name)
        IN  /\ ValidateFile(name) = want
            /\ last.exc = "none"
            /\ hwlog = IF want.err THEN <<>>
                       ELSE ScriptLoad(want) \o ScriptSaveToFlash(want)
                               \o ScriptRunOnStartup(want) \o ScriptRun(want, FALSE)

\* C20 (checked under Spec): a construction on a file system without the
\* control script writes neither the save-to-flash nor the run-on-startup
\* register
C20_NoScriptNoFlashWrites ==
    (last.op = "init" /\ ValidateFile(S_antenna_control).err) =>
        \A j \in 1..Len(hwlog) :
            hwlog[j].reg \notin {"LUA_SAVE_TO_FLASH", "LUA_RUN_DEFAULT"}

-----------------------------------------------------------------------------
(* Further claims about the calibration writer, checked under SpecCal *)

IsFlashCall(c) == c.reg \in {"INTERNAL_FLASH_ERASE", "INTERNAL_FLASH_WRITE"}
IsScriptCall(c) == c.reg = "LUA_RUN"

\* the erase and write calls of the claim for the table handed to the writer:
\* one erase, then value i at address 4 * i
EraseThenWrites ==
    << EraseFlash >> \o [i \in 1..Len(calTable) |-> WriteFlash(4 * (i - 1), calTable[i])]

IsPrefix(s, t) == Len(s) <= Len(t) /\ s = SubSeq(t, 1, Len(s))

\* the call just made found a stored value that differs from its candidate
MismatchFound ==
    /\ last.op = "write_config_to_flash"
    /\ \E i \in 1..Len(calTable) : Differs(flash0[i], calTable[i])
    /\ fault \notin 1..(2 * Len(calTable))

\* C27: on a mismatch the writer erases the flash once, before any flash
\* write, then writes every value of the table in table order, value i at
\* address 4 * i, one value per call, none skipped or repeated; a transport
\* error only cuts this sequence short
C27_EraseOnceThenWritesInOrder ==
    MismatchFound =>
        LET fc == SelectSeq(hwlog, IsFlashCall)
        IN  /\ IsPrefix(fc, EraseThenWrites)
            /\ fault = 0 => fc = EraseThenWrites

C27_Witness ==
    /\ MismatchFound /\ fault = 0 /\ Len(calTable) = MaxLen
    /\ calTable[1] # calTable[2]
    /\ SelectSeq(hwlog, IsFlashCall) = EraseThenWrites

\* C28: after writing a table the writer stops the script twice and starts
\* it, in that order and after every flash call; when the start fails with a
\* transport error the writer logs an error and returns normally
C28_RestartAfterWritesStartFailureLogged ==
    MismatchFound =>
        LET plan == WriteConfigPlan(flash0, calTable)
            n    == Len(hwlog)
        IN  /\ \A i, j \in 1..n :
                  (IsScriptCall(hwlog[i]) /\ IsFlashCall(hwlog[j])) => j < i
            /\ fault = 0 =>
                  /\ last.exc = "none"
                  /\ SelectSeq(hwlog, IsScriptCall)
                        = << W("LUA_RUN", JInt(0)), W("LUA_RUN", JInt(0)), W("LUA_RUN", JInt(1)) >>
                  /\ SubSeq(hwlog, n - 2, n) = SelectSeq(hwlog, IsScriptCall)
            /\ fault = Len(plan) =>
                  /\ last.exc = "none"
                  /\ last.log # <<>> /\ last.log[Len(last.log)] = "error"
                  /\ SelectSeq(hwlog, IsFlashCall) = EraseThenWrites
                  /\ SelectSeq(hwlog, IsScriptCall)
                        = << W("LUA_RUN", JInt(0)), W("LUA_RUN", JInt(0)) >>

C28_Witness ==
    /\ MismatchFound /\ Len(calTable) = MaxLen
    /\ fault = Len(WriteConfigPlan(flash0, calTable))
    /\ last.exc = "none" /\ last.log[Len(last.log)] = "error"

\* C29: a stored value that reads back as NaN at an index of the candidate
\* table makes the writer erase and write, whatever the candidate there
C29_StoredNaNForcesWrite ==
    (/\ last.op = "write_config_to_flash"
     /\ fault = 0
     /\ \E i \in 1..Len(calTable) : flash0[i].k = "nan")
        => SelectSeq(hwlog, IsFlashCall) = EraseThenWrites

C29_Witness ==
    /\ last.op = "write_config_to_flash" /\ fault = 0
    /\ flash0 = << NaN, F32(F(Unit)) >>
    /\ calTable = << F(Unit), F(Unit) >>
    /\ SelectSeq(hwlog, IsFlashCall) = EraseThenWrites

-----------------------------------------------------------------------------
(* The script manager (lua_script_utilities.py) called on its own *)

\* run(): range(20)
RUN_RETRIES == 20

\* the characters str.strip() removes
Whitespace == {" ", "\n", "\t"}

\* the terminator '\0'
NUL == "NUL"

RECURSIVE LStrip(_)
LStrip(s) == IF s # <<>> /\ Head(s) \in Whitespace THEN LStrip(Tail(s)) ELSE s

RECURSIVE RStrip(_, _)
RStrip(s, chars) ==
    IF s # <<>> /\ s[Len(s)] \in chars THEN RStrip(SubSeq(s, 1, Len(s) - 1), chars) ELSE s

\* line.strip()
Strip(s) == RStrip(LStrip(s), Whitespace)

\* re.split('--', line)[0]
BeforeComment(line) ==
    LET hits == {i \in 1..(Len(line) - 1) : line[i] = "-" /\ line[i + 1] = "-"}
    IN  IF hits = {} THEN line
        ELSE SubSeq(line, 1, (CHOOSE i \in hits : \A j \in hits : i <= j) - 1)

\* re.split(' *$', new_line)[0]
BeforeTrailingBlanks(s) == RStrip(s, {" "})

\* sep.join([a, b])
Join2(sep, a, b) == a \o sep \o b

RECURSIVE CompressLines(_, _)
\* the loop of lua_compress: compressed_script = compressed_script.join([new_line, '\n'])
CompressLines(script_lines, compressed_script) ==
    IF script_lines = <<>> THEN compressed_script
    ELSE LET new_line == BeforeTrailingBlanks(BeforeComment(Strip(Head(script_lines))))
         IN  CompressLines(Tail(script_lines),
                           IF new_line # <<>>
                           THEN Join2(compressed_script, new_line, <<"\n">>)
                           ELSE compressed_script)

RECURSIVE Concat(_)
\* ''.join(script_lines)
Concat(script_lines) ==
    IF script_lines = <<>> THEN <<>> ELSE Head(script_lines) \o Concat(Tail(script_lines))

\* lua_compress(script_lines, compress): [exc, val]; indexing the empty
\* string with [-1] raises IndexError
LuaCompress(script_lines, compress) ==
    LET compressed_script == IF compress THEN CompressLines(script_lines, <<>>)
                             ELSE Concat(script_lines)
    IN  IF compressed_script = <<>> THEN [exc |-> "IndexError", val |-> <<>>]
        ELSE IF compressed_script[Len(compressed_script)] # NUL
             THEN [exc |-> "none", val |-> compressed_script \o << NUL >>]
             ELSE [exc |-> "none", val |-> compressed_script]

S_local == <<"l","o","c","a","l">>
S_ver   == <<"v","e","r">>

StartsWithAt(s, i, w) == i + Len(w) - 1 <= Len(s) /\ SubSeq(s, i, i + Len(w) - 1) = w

RECURSIVE SkipBlanks(_, _)
SkipBlanks(s, i) == IF i <= Len(s) /\ s[i] = " " THEN SkipBlanks(s, i + 1) ELSE i

\* the pattern 'local *ver *= *' matches script at i
VersionAt(script, i) ==
    /\ StartsWithAt(script, i, S_local)
    /\ LET j == SkipBlanks(script, i + Len(S_local))
       IN  /\ StartsWithAt(script, j, S_ver)
           /\ StartsWithAt(script, SkipBlanks(script, j + Len(S_ver)), <<"=">>)

\* _get_script_ver(script): re.split(...)[1] exists only if the pattern matches
GetScriptVerRaises(script) == ~ \E i \in 1..Len(script) : VersionAt(script, i)

\* load(compress) for a script whose file reads script_lines, the k-th
\* transport call raising LJMError: [hw, exc, log]
LuaLoad(err, script_lines, compress, k) ==
    IF err THEN Res(<<>>, "none", <<>>)
    ELSE LET halt == << W("LUA_RUN", JInt(0)), W("LUA_RUN", JInt(0)), R("LUA_RUN") >>
             c    == LuaCompress(script_lines, compress)
         IN  IF k \in 1..Len(halt) THEN ApplyFault(Res(halt, "none", <<"info">>), k)
             ELSE IF c.exc # "none" THEN Res(halt, c.exc, <<"info">>)
             ELSE IF GetScriptVerRaises(c.val) THEN Res(halt, "IndexError", <<"info">>)
             ELSE ApplyFault(Res(halt \o << RAddr("46000"),
                                           W("LUA_SOURCE_SIZE", JInt(Len(c.val))),
                                           WBytes("LUA_SOURCE_WRITE", JStr(c.val)) >>,
                                 "none", <<"info">>), k)

\* the polls run() makes when the device first reports the script running at
\* poll r (r > RUN_RETRIES: not within the budget), stopping at every poll
RunPollsAll(r) == RUN_RETRIES

\* the polls run() makes: it stops at the first poll that reads 1
RunPolls(r) == IF r \in 1..RUN_RETRIES THEN r ELSE RUN_RETRIES

\* run(debug): [hw, exc, val, sleeps]; sleeps counts time.sleep(0.5)
LuaRun(err, debug, r, k) ==
    IF err THEN [hw |-> <<>>, exc |-> "none", val |-> FALSE, sleeps |-> 0]
    ELSE LET dbg   == IF debug THEN 1 ELSE 0
             calls == << W("LUA_DEBUG_ENABLE", JInt(dbg)), W("LUA_RUN", JInt(1)) >>
                         \o [i \in 1..RunPolls(r) |-> R("LUA_RUN")]
             ok    == r \in 1..RUN_RETRIES
         IN  IF k \in 1..Len(calls)
             THEN [hw |-> SubSeq(calls, 1, k - 1), exc |-> "LJMError", val |-> FALSE,
                   sleeps |-> IF k > 3 THEN k - 3 ELSE 0]
             ELSE [hw |-> calls, exc |-> "none", val |-> ok,
                   sleeps |-> IF ok THEN RunPolls(r) - 1 ELSE RunPolls(r)]

\* a script file has at most this many lines
MaxLines == 2

\* the lines script files are made of, each with its line terminator
LineTexts ==
    { <<>>, <<"a">>, <<"a", " ">>, <<" ", "a">>, <<"b", "-", "c">>,
      <<"-", "-", "a">>, <<"a", " ", "-", "-", "b">>,
      <<"l","o","c","a","l"," ","v","e","r","=","1">> }
ScriptLineSet == { t \o <<"\n">> : t \in LineTexts }
ScriptTexts == UNION { SeqsOfLen(ScriptLineSet, n) : n \in 0..MaxLines }

nonCallVars == <<disc, watcher, sessVars, gcVars, timeVars, calVars, cmdVars, fault, hwlog, last>>

InitLua == NoSessions /\ disc = NoDisc

\* script.run(debug) on a device that first reports the script running at poll r
CallRun ==
    /\ fnIn = NoCall
    /\ \E err \in BOOLEAN, debug \in BOOLEAN, r \in 1..(RUN_RETRIES + 1), k \in 0..MaxFault :
          /\ fnIn' = [fn |-> "run", err |-> err, debug |-> debug, r |-> r, k |-> k]
          /\ fnOut' = LuaRun(err, debug, r, k)
    /\ UNCHANGED nonCallVars

\* script.lua_compress(script_lines, compress)
CallCompress ==
    /\ fnIn = NoCall
    /\ \E script_lines \in ScriptTexts, compress \in BOOLEAN :
          /\ fnIn' = [fn |-> "lua_compress", lines |-> script_lines, compress |-> compress]
          /\ fnOut' = LuaCompress(script_lines, compress)
    /\ UNCHANGED nonCallVars

\* script.load() for a script whose file reads script_lines
CallLoad ==
    /\ fnIn = NoCall
    /\ \E err \in BOOLEAN, script_lines \in ScriptTexts, k \in 0..MaxFault :
          /\ fnIn' = [fn |-> "load", err |-> err, lines |-> script_lines, k |-> k]
          /\ fnOut' = LuaLoad(err, script_lines, TRUE, k)
    /\ UNCHANGED nonCallVars

NextLua == CallRun \/ CallCompress \/ CallLoad

SpecLua == InitLua /\ [][NextLua]_vars

-----------------------------------------------------------------------------
(* Claims about the script manager, checked under SpecLua *)

\* C21: run() with a script writes the debug flag (1 if debug, else 0), then
\* the run flag, then polls the running status at most RUN_RETRIES times with
\* one sleep between polls; it returns true at the first poll that reports
\* running and false when none within the budget does; without a script it
\* returns false and touches no register
C21_RunPollsWithinBudget ==
    fnIn.fn = "run" =>
        /\ Len(fnOut.hw) <= RUN_RETRIES + 2
        /\ fnIn.err => (fnOut.hw = <<>> /\ fnOut.val = FALSE /\ fnOut.exc = "none")
        /\ (~fnIn.err /\ fnOut.exc = "none") =>
              LET polls == Len(fnOut.hw) - 2
              IN  /\ fnOut.hw[1] = W("LUA_DEBUG_ENABLE", JInt(IF fnIn.debug THEN 1 ELSE 0))
                  /\ fnOut.hw[2] = W("LUA_RUN", JInt(1))
                  /\ \A i \in 3..Len(fnOut.hw) : fnOut.hw[i] = R("LUA_RUN")
                  /\ polls \in 1..RUN_RETRIES
                  /\ fnOut.val = (fnIn.r <= RUN_RETRIES)
                  /\ fnOut.val => polls = fnIn.r
                  /\ ~fnOut.val => polls = RUN_RETRIES
                  /\ fnOut.sleeps = IF fnOut.val THEN polls - 1 ELSE polls

C21_Witness ==
    /\ fnIn.fn = "run" /\ ~fnIn.err /\ fnIn.debug /\ fnIn.r = 3
    /\ fnOut.exc = "none" /\ fnOut.val = TRUE /\ Len(fnOut.hw) = 5

\* a line as the claim leaves it: cut at the comment marker, trailing
\* whitespace removed
LineAsClaimed(line) == RStrip(BeforeComment(line), Whitespace)

RECURSIVE TextAsClaimed(_)
\* the kept lines in their order, each followed by one newline
TextAsClaimed(script_lines) ==
    IF script_lines = <<>> THEN <<>>
    ELSE LET l == LineAsClaimed(Head(script_lines))
         IN  (IF l = <<>> THEN <<>> ELSE l \o <<"\n">>) \o TextAsClaimed(Tail(script_lines))

\* C22: lua_compress with compress enabled returns the lines in their order,
\* each cut at '--' and without trailing whitespace, empty lines dropped, one
\* newline after each kept line, and one terminator at the end, for every
\* sequence of lines including the empty one
C22_CompressKeepsOrderAndTerminates ==
    (fnIn.fn = "lua_compress" /\ fnIn.compress) =>
        /\ fnOut.exc = "none"
        /\ fnOut.val = TextAsClaimed(fnIn.lines) \o << NUL >>

\* C30: load() with a script writes the run flag 0 twice before any upload,
\* then the size of the terminated text and then the text; without a script
\* it touches no register
C30_LoadStopsThenUploads ==
    fnIn.fn = "load" =>
        /\ fnIn.err => fnOut.hw = <<>>
        /\ \A i \in 1..Len(fnOut.hw) :
              fnOut.hw[i].reg \in {"LUA_SOURCE_SIZE", "LUA_SOURCE_WRITE"} =>
                  (/\ i > 2
                   /\ fnOut.hw[1] = W("LUA_RUN", JInt(0))
                   /\ fnOut.hw[2] = W("LUA_RUN", JInt(0)))
        /\ (~fnIn.err /\ fnIn.k = 0) =>
              /\ fnOut.exc = "none"
              /\ Len(fnOut.hw) = 6
              /\ fnOut.hw[5].reg = "LUA_SOURCE_SIZE"
              /\ fnOut.hw[6].reg = "LUA_SOURCE_WRITE"
              /\ fnOut.hw[5].val = JInt(Len(fnOut.hw[6].val.s))
              /\ fnOut.hw[6].val.s[Len(fnOut.hw[6].val.s)] = NUL

-----------------------------------------------------------------------------
(* Decoding of the monitor points (_get_data of both session classes),
   called on its own *)

\* (dig_val >> n) & mask, mask one less than a power of two
ShiftAnd(dig_val, n, mask) == (dig_val \div (2 ^ n)) % (mask + 1)

\* the digital monitor points without the inversion of the active-low bits
DecodeDigitalNoInvert(dig_val) ==
    [ emergency_off |-> ShiftAnd(dig_val, 8, 1) # 0,
      drv_cmd       |-> ShiftAnd(dig_val, 9, 3),
      drv_act       |-> ShiftAnd(dig_val, 14, 3),
      brake_on      |-> ShiftAnd(dig_val, 13, 1) # 0,
      at_north_lim  |-> ShiftAnd(dig_val, 20, 1) # 0,
      at_south_lim  |-> ShiftAnd(dig_val, 21, 1) # 0,
      fan_err       |-> ShiftAnd(dig_val, 22, 1) # 0,
      noise_a_on    |-> ShiftAnd(dig_val, 11, 1) # 0,
      noise_b_on    |-> ShiftAnd(dig_val, 12, 1) # 0 ]

\* _get_data of the antenna session, the monitor points taken from
\* dig_val = int(a_values[15]); bool(n) is n # 0
DecodeDigital(dig_val) ==
    [ emergency_off |-> ShiftAnd(dig_val, 8, 1) # 0,
      drv_cmd       |-> ShiftAnd(dig_val, 9, 3),
      drv_act       |-> ShiftAnd(dig_val, 14, 3),
      brake_on      |-> (1 - ShiftAnd(dig_val, 13, 1)) # 0,
      at_north_lim  |-> (1 - ShiftAnd(dig_val, 20, 1)) # 0,
      at_south_lim  |-> (1 - ShiftAnd(dig_val, 21, 1)) # 0,
      fan_err       |-> ShiftAnd(dig_val, 22, 1) # 0,
      noise_a_on    |-> (1 - ShiftAnd(dig_val, 11, 1)) # 0,
      noise_b_on    |-> (1 - ShiftAnd(dig_val, 12, 1)) # 0 ]

\* the bits of DIO_STATE the decoding reads, and two it does not
StatusBits == {8, 9, 10, 11, 12, 13, 14, 15, 20, 21, 22}
OtherBits  == {0, 23}

RECURSIVE WordOf(_)
\* the word whose set bits are bits
WordOf(bits) ==
    IF bits = {} THEN 0
    ELSE LET n == CHOOSE n \in bits : TRUE IN 2 ^ n + WordOf(bits \ {n})

\* a store key: its prefix and the number it ends in
Key(prefix, n) == [prefix |-> prefix, n |-> n]

\* the slot of the 80-value read that antenna i of the group (from 0) takes
\* its f-th value (from 0) from, were every antenna given the first eight
BebSlotShared(i, f) == f

\* the slot of the 80-value read that antenna i of the group (from 0) takes
\* its f-th value (from 0) from: j runs on through the loop
BebSlot(i, f) == 8 * i + f

\* 1000 * v / 35.0 - 90.0, 1000 * v, 100.0 * v, 100.0 * v - 50.0 in 1/Unit
IfPwr(v)      == F((1000 * v.m) \div 35 - 90 * Unit)
Times1000(v)  == F(1000 * v.m)
Times100(v)   == F(100 * v.m)
BebTemp(v)    == F(100 * v.m - 50 * Unit)

\* _get_data of the backend session: monitor_points[i] for i (from 0) after
\* the reads returned psu_vals, lj_temp, analog_vals (indexed from 1 here)
\* at the time stamp time_stamp
BebMonitorPoints(beb_num, i, psu_vals, lj_temp, analog_vals, time_stamp) ==
    [ ant_num       |-> beb_num + i,
      time          |-> time_stamp,
      pd_current_a  |-> analog_vals[BebSlot(i, 0) + 1],
      pd_current_b  |-> analog_vals[BebSlot(i, 1) + 1],
      if_pwr_a      |-> IfPwr(analog_vals[BebSlot(i, 2) + 1]),
      if_pwr_b      |-> IfPwr(analog_vals[BebSlot(i, 3) + 1]),
      lo_mon        |-> analog_vals[BebSlot(i, 4) + 1],
      beb_current_a |-> Times100(analog_vals[BebSlot(i, 5) + 1]),
      beb_current_b |-> Times100(analog_vals[BebSlot(i, 6) + 1]),
      beb_temp      |-> BebTemp(analog_vals[BebSlot(i, 7) + 1]),
      psu_voltage   |-> psu_vals[1],
      psu_current   |-> Times1000(psu_vals[2]),
      lj_temp       |-> lj_temp ]

\* one iteration of the backend's run(): the puts it makes, in order
BebPublications(beb_num, valid, psu_vals, lj_temp, analog_vals, time_stamp) ==
    IF valid
    THEN [ n \in 1..BEB_PER_LJ |->
             [ key |-> Key("/mon/beb/", beb_num + (n - 1)),
               doc |-> BebMonitorPoints(beb_num, n - 1, psu_vals, lj_temp, analog_vals,
                                        time_stamp) ] ]
    ELSE <<>>

\* readings of the 80 analog inputs: a ramp from base, or all alike
AnalogReads ==
    { [j \in 1..(8 * BEB_PER_LJ) |-> F(base + j)] : base \in {0, Unit} }
    \cup { [j \in 1..(8 * BEB_PER_LJ) |-> F(5)] }
PsuReads == { << F(12 * Unit), F(3) >>, << F(0), F(Unit) >> }
TempReads == { F(290 * Unit), F(300 * Unit) }
BebNums == { 1, 2, 11 }

\* the antenna session decodes the DIO_STATE word whose set bits are bits
CallDecodeDigital ==
    /\ fnIn = NoCall
    /\ \E bits \in SUBSET StatusBits, other \in SUBSET OtherBits :
          /\ fnIn' = [fn |-> "decode", bits |-> bits \cup other]
          /\ fnOut' = DecodeDigital(WordOf(bits \cup other))
    /\ UNCHANGED nonCallVars

\* one iteration of the backend's poll loop
CallBebPoll ==
    /\ fnIn = NoCall
    /\ \E b \in BebNums, valid \in BOOLEAN, psu \in PsuReads, t \in TempReads,
          an \in AnalogReads, ts \in { Stamp(0), Stamp(Second) } :
          /\ fnIn' = [fn |-> "beb_poll", beb_num |-> b, etcd_valid |-> valid,
                      psu_vals |-> psu, lj_temp |-> t, analog_vals |-> an, time_stamp |-> ts]
          /\ fnOut' = [hw |-> BebReadCalls,
                       puts |-> BebPublications(b, valid, psu, t, an, ts)]
    /\ UNCHANGED nonCallVars

NextMon == CallDecodeDigital \/ CallBebPoll

SpecMon == InitLua /\ [][NextMon]_vars

(* Claims about the decoding, checked under SpecMon *)

\* C23: the digital monitor points are the bits of the status word:
\* emergency_off bit 8, brake_on not bit 13, at_north_lim not bit 20,
\* at_south_lim not bit 21, fan_err bit 22, noise_a_on not bit 11,
\* noise_b_on not bit 12, drv_cmd bits 9-10, drv_act bits 14-15
C23_DigitalBitsDecoded ==
    fnIn.fn = "decode" =>
        LET b(n) == IF n \in fnIn.bits THEN 1 ELSE 0
        IN  /\ fnOut.emergency_off = (8 \in fnIn.bits)
            /\ fnOut.brake_on      = (13 \notin fnIn.bits)
            /\ fnOut.at_north_lim  = (20 \notin fnIn.bits)
            /\ fnOut.at_south_lim  = (21 \notin fnIn.bits)
            /\ fnOut.fan_err       = (22 \in fnIn.bits)
            /\ fnOut.noise_a_on    = (11 \notin fnIn.bits)
            /\ fnOut.noise_b_on    = (12 \notin fnIn.bits)
            /\ fnOut.drv_cmd       = b(9) + 2 * b(10)
            /\ fnOut.drv_act       = b(14) + 2 * b(15)

C23_Witness ==
    /\ fnIn.fn = "decode" /\ fnIn.bits = {0, 8, 10, 13, 14, 20, 23}
    /\ fnOut.emergency_off /\ ~fnOut.brake_on /\ ~fnOut.at_north_lim /\ fnOut.at_south_lim
    /\ fnOut.drv_cmd = 2 /\ fnOut.drv_act = 1 /\ fnOut.noise_a_on

\* C24: a poll cycle of a backend session with a store makes ten
\* publications, the i-th (from 0) under /mon/beb/<b+i> with ant_num b+i and
\* the analog slots 8i..8i+7, all ten with the same time stamp, power-supply
\* values and device temperature
C24_BebPublishesTenSets ==
    (fnIn.fn = "beb_poll" /\ fnIn.etcd_valid) =>
        /\ Len(fnOut.puts) = 10
        /\ \A i \in 0..9 :
              LET p == fnOut.puts[i + 1]
                  a(f) == fnIn.analog_vals[8 * i + f + 1]
              IN  /\ p.key = Key("/mon/beb/", fnIn.beb_num + i)
                  /\ p.doc.ant_num = fnIn.beb_num + i
                  /\ p.doc.pd_current_a = a(0) /\ p.doc.pd_current_b = a(1)
                  /\ p.doc.if_pwr_a = IfPwr(a(2)) /\ p.doc.if_pwr_b = IfPwr(a(3))
                  /\ p.doc.lo_mon = a(4)
                  /\ p.doc.beb_current_a = Times100(a(5))
                  /\ p.doc.beb_current_b = Times100(a(6))
                  /\ p.doc.beb_temp = BebTemp(a(7))
                  /\ p.doc.time = fnOut.puts[1].doc.time
                  /\ p.doc.psu_voltage = fnIn.psu_vals[1]
                  /\ p.doc.psu_current = Times1000(fnIn.psu_vals[2])
                  /\ p.doc.lj_temp = fnIn.lj_temp

C24_Witness ==
    /\ fnIn.fn = "beb_poll" /\ fnIn.etcd_valid /\ fnIn.beb_num = 11
    /\ fnIn.analog_vals[80] = F(Unit + 80)
    /\ Len(fnOut.puts) = 10
    /\ fnOut.puts[10].key = Key("/mon/beb/", 20)
    /\ fnOut.puts[10].doc.beb_temp = BebTemp(F(Unit + 80))

-----------------------------------------------------------------------------
(* The startup check (lj_startup.py), called on its own *)

\* version registers are read in units of 1e-5; float(format(x, '.4f'))
Round4(x) == ((x + 5) \div 10) * 10

\* format(float(x), '.3f')
Round3(x) == ((x + 50) \div 100) * 100

\* the characters before the first 0 of the bytes read
RECURSIVE UpToNul(_)
UpToNul(bytes) ==
    IF bytes = <<>> \/ Head(bytes) = 0 THEN <<>>
    ELSE << Head(bytes) >> \o UpToNul(Tail(bytes))

\* config_valid without the test of the product id
ConfigValidAnyProduct(factory, prod_id, attempted, lua_running) ==
    ~(attempted /\ ~lua_running) /\ ~factory

\* config_valid at the return: cleared when the required script does not run
\* after the attempt, when the device has its factory configuration, or when
\* the product id is not 7
ConfigValid(factory, prod_id, attempted, lua_running) ==
    ~(attempted /\ ~lua_running) /\ ~(factory \/ prod_id # 7)

\* the dictionary t7_startup_check returns when the registers read rd
StartupState(lua_required, rd) ==
    LET factory   == rd.factory # 0
        attempted == rd.lua_run = 0 /\ lua_required
        running   == IF attempted THEN rd.lua_run_after # 0 ELSE rd.lua_run # 0
    IN  [ factory      |-> factory,
          prod_id      |-> rd.prod_id,
          hw_ver       |-> Round4(rd.hw_ver),
          fw_ver       |-> Round4(rd.fw_ver),
          boot_ver     |-> Round4(rd.boot_ver),
          ser_no       |-> rd.ser_no,
          dev_name     |-> UpToNul(rd.dev_name),
          lua_running  |-> running,
          lua_code_ver |-> Round3(rd.code_ver),
          config_valid |-> ConfigValid(factory, rd.prod_id, attempted, running) ]

\* what the registers may read
VersionReads == { 130000, 102924, 102926 }
NameReads == { <<77, 121, 0, 0>>, <<0, 88, 0, 0>> }
RegisterReads ==
    [ factory : {0, 1}, prod_id : {7, 4}, hw_ver : VersionReads, fw_ver : VersionReads,
      boot_ver : {98000}, ser_no : {470012345}, dev_name : NameReads,
      lua_run : {0, 1}, lua_run_after : {0, 1}, code_ver : {12600} ]

\* t7_startup_check(lj_handle, lua_required, ant_num)
CallStartupCheck ==
    /\ fnIn = NoCall
    /\ \E lua_required \in BOOLEAN, start_fails \in BOOLEAN, rd \in RegisterReads :
          /\ start_fails => (rd.lua_run = 0 /\ lua_required)
          /\ rd.lua_run # 0 => rd.lua_run_after = rd.lua_run
          /\ fnIn' = [fn |-> "t7_startup_check", lua_required |-> lua_required,
                      start_fails |-> start_fails, rd |-> rd]
          /\ fnOut' = [hw |-> T7StartupCheck(lua_required, rd.lua_run # 0, start_fails),
                       state |-> StartupState(lua_required, rd)]
    /\ UNCHANGED nonCallVars

NextStartup == CallStartupCheck

SpecStartup == InitLua /\ [][NextStartup]_vars

\* C25 (checked under SpecStartup): the state returned carries the values
\* read from the registers (versions to four decimals, the name up to its
\* terminator, lua_running as last read); config_valid is false when the
\* product id is not 7 or a required script does not run after the attempt
\* to start it; when no script is required config_valid does not depend on
\* lua_running and no script register is written
C25_StartupStateReflectsRegisters ==
    fnIn.fn = "t7_startup_check" =>
        LET st == fnOut.state
            rd == fnIn.rd
            lastRun == IF rd.lua_run = 0 /\ fnIn.lua_required THEN rd.lua_run_after
                       ELSE rd.lua_run
        IN  /\ st.factory = (rd.factory = 1)
            /\ st.prod_id = rd.prod_id
            /\ AbsInt(st.hw_ver - rd.hw_ver) <= 5 /\ st.hw_ver % 10 = 0
            /\ AbsInt(st.fw_ver - rd.fw_ver) <= 5 /\ st.fw_ver % 10 = 0
            /\ st.ser_no = rd.ser_no
            /\ st.dev_name = SubSeq(rd.dev_name, 1, Len(st.dev_name))
            /\ 0 \notin { st.dev_name[i] : i \in 1..Len(st.dev_name) }
            /\ rd.dev_name[Len(st.dev_name) + 1] = 0
            /\ st.lua_running = (lastRun = 1)
            /\ rd.prod_id # 7 => ~st.config_valid
            /\ (fnIn.lua_required /\ ~st.lua_running) => ~st.config_valid
            /\ ~fnIn.lua_required =>
                  /\ st.config_valid = (rd.factory = 0 /\ rd.prod_id = 7)
                  /\ \A i \in 1..Len(fnOut.hw) : fnOut.hw[i].op # "eWriteName"

C25_Witness ==
    /\ fnIn.fn = "t7_startup_check" /\ fnIn.lua_required /\ fnIn.start_fails
    /\ fnIn.rd.prod_id = 7 /\ fnIn.rd.factory = 0 /\ fnIn.rd.lua_run_after = 0
    /\ fnIn.rd.hw_ver = 102926 /\ fnOut.state.hw_ver = 102930
    /\ ~fnOut.state.config_valid

-----------------------------------------------------------------------------
(* The store keys of the sessions *)

\* DsaAntLabJack.__init__: etcd_mon_key, etcd_cmd_key, etcd_cal_key
AntKeys(ant_num) ==
    { Key("/mon/ant/", ant_num), Key("/cmd/ant/", ant_num), Key("/cal/ant/", ant_num) }

\* DsaAntLabJack.__init__: etcd_cmd_all_key
BroadcastKey == Key("/cmd/ant/", 0)

\* DsaBebLabJack.__init__: etcd_mon_key
BebKeys(beb_num) == { Key("/mon/beb/", beb_num + i) : i \in 0..(BEB_PER_LJ - 1) }

\* the module-specific keys of a session constructed by discovery
SessionKeys(s) == IF s.type = ANT_TYPE THEN AntKeys(s.loc) ELSE BebKeys(s.loc)

\* C26 (checked under SpecDisc): any two sessions constructed by one
\* discovery have disjoint module-specific keys, none of which is the
\* broadcast command key
C26_SessionKeysDisjoint ==
    disc.pc # "none" =>
        /\ \A i, j \in 1..Len(disc.created) :
              i # j => SessionKeys(disc.created[i]) \cap SessionKeys(disc.created[j]) = {}
        /\ \A i \in 1..Len(disc.created) : BroadcastKey \notin SessionKeys(disc.created[i])

-----------------------------------------------------------------------------
(* Claims about the noise and move handlers, checked under SpecCmd *)

\* the register a noise command switches
NoiseReg(name) == IF name = S_noise_a_on THEN NOISE_A ELSE NOISE_B

IsNoiseCmd(p) ==
    /\ HasCmdName(p)
    /\ StrLower(p.d["cmd"].s) \in {S_noise_a_on, S_noise_b_on}
    /\ "val" \in DOMAIN p.d

NotConvertible(v) ==
    \/ v.t = "str" /\ ~ParseFloat(v.s).ok
    \/ v.t \in {"null", "list", "dict"}

IsRejectedMove(p) ==
    IsCmd(p, S_move) /\ "val" \in DOMAIN p.d /\ NotConvertible(p.d["val"])

\* C32: a move command whose argument does not convert to a float is
\* rejected: dispatch makes no transport write (neither USER_RAM1_F32 nor
\* USER_RAM0_U16 is written) and no exception leaves it
C32_NonNumericMoveRejected ==
    (Handled /\ IsRejectedMove(event.p)) => (hwlog = <<>> /\ last.exc = "none")

C32_Witness ==
    /\ Handled
    /\ event.p = MkDict(JStr(S_move), JStr(S_abc), Absent)
    /\ hwlog = <<>>
    /\ last.exc = "none"

-----------------------------------------------------------------------------
(* Claims about the classification of modules, checked under SpecDisc *)

\* bit n of a register word
Bit(v, n) == (v \div (2 ^ n)) % 2

\* the module whose turn it is in the loop
Current == disc.devs[disc.i + 1]

\* the loop is at a module of a live scan that opens
AtLiveModule == disc.pc = "loop" /\ ~disc.sim /\ Current.open

\* the step constructs a session
Constructs == Len(disc'.created) = Len(disc.created) + 1

\* the sessions constructed so far keep their type and number
CreatedKept ==
    /\ Len(disc'.created) >= Len(disc.created)
    /\ \A j \in 1..Len(disc.created) : disc'.created[j] = disc.created[j]

\* C33: a module whose FIO_STATE reads v in 0..255 is constructed as an antenna
\* when bit 7 of v is 0 and as a backend when it is 1, with the low seven bits
\* of v as its number; the type and number a session was constructed with do
\* not change in any later step of discovery
C33_RoleAndLocationFromStatusWord ==
    [][ /\ disc.pc # "none" => CreatedKept
        /\ (AtLiveModule /\ Current.id \in IdWords /\ disc'.pc # "raised") =>
               /\ Constructs
               /\ disc'.created[Len(disc'.created)] =
                     [type |-> IF Bit(Current.id, 7) = 0 THEN ANT_TYPE ELSE BEB_TYPE,
                      loc  |-> Current.id % (2 ^ 7)]
      ]_vars

C33_Witness ==
    /\ disc.pc = "done" /\ ~disc.sim
    /\ disc.devs = <<Dev(TRUE, 200)>>
    /\ disc.created = <<[type |-> BEB_TYPE, loc |-> 72]>>

\* C34: a module whose FIO_STATE cannot be read gets no session: the step
\* leaves both maps, both counters and the sessions constructed unchanged and
\* the loop goes on to the next module listed (it ends only after the last);
\* no session is ever constructed with NULL_TYPE
C34_UnreadableModuleSkipped ==
    [][ /\ (AtLiveModule /\ Current.id = IdError) =>
               /\ disc'.created = disc.created
               /\ disc'.ants = disc.ants /\ disc'.bebs = disc.bebs
               /\ disc'.num_ant = disc.num_ant /\ disc'.num_beb = disc.num_beb
               /\ disc'.i = disc.i + 1
               /\ disc'.pc = IF disc.i + 1 = Len(disc.devs) THEN "done" ELSE "loop"
        /\ disc'.pc # "none" =>
               \A j \in 1..Len(disc'.created) : disc'.created[j].type # NULL_TYPE
      ]_vars

C34_Witness ==
    /\ disc.pc = "done" /\ ~disc.sim
    /\ disc.devs = <<Dev(TRUE, IdError), Dev(TRUE, 2)>>
    /\ disc.created = <<[type |-> ANT_TYPE, loc |-> 2]>>
    /\ DOMAIN disc.ants = {2}

\* C35: when discovery is over the antenna and backend counters are the sizes
\* of the antenna and backend maps, and every session constructed is the one
\* its map holds under its number
C35_CountersMatchMapsNoOverwrite ==
    disc.pc = "done" =>
        /\ disc.num_ant = Cardinality(DOMAIN disc.ants)
        /\ disc.num_beb = Cardinality(DOMAIN disc.bebs)
        /\ Len(disc.created) = Cardinality(DOMAIN disc.ants) + Cardinality(DOMAIN disc.bebs)

-----------------------------------------------------------------------------
(* Claims about the watches over the life of a session *)

\* C37 (checked under Spec): no transport call is made by cmd_callback or
\* cal_callback while the constructor has not yet finished the initialization
\* of the module (_init_ant_labjack with its calibration check)
C37_NoDispatchWhileInitializing ==
    (last.op \in {"cmd_callback", "cal_callback"} /\ hwlog # <<>>) =>
        apc \notin {"ctor", "init"}

\* C39 (checked under SpecCmd): a script command makes the transport calls of
\* load_script on the "val" string as it was received, letter case included
C39_ScriptNameUnaltered ==
    ScriptCmdHandled =>
        /\ CmdArgs(event.p.d["val"]) = event.p.d["val"]
        /\ hwlog = LoadScript(event.p.d["val"]).hw

\* C40 (checked under Spec): once run() has returned, no watch of the session
\* is active and the store connection is closed, whichever of the three
\* watches were installed
C40_StoppedSessionHasNoWatches ==
    apc = "stopped" => (active = {} /\ ~storeOpen)

-----------------------------------------------------------------------------
(* The store client of one antenna session: puts on the watched keys, their  *)
(* delivery to the watches and the callbacks run for them, one transport     *)
(* call at a time                                                            *)

\* clients put at most this many values
MaxPuts == 2

\* the session numbers followed: the least and the greatest a seven-bit
\* location can be, and one between
AntNums == {0, 1, 127}

\* the watches __init__ installs, in order: id attribute, key, callback
AntWatches(ant_num) ==
    << [id |-> "cmd",     key |-> Key("/cmd/ant/", ant_num), cb |-> "cmd_callback"],
       [id |-> "cmd_all", key |-> BroadcastKey,              cb |-> "cmd_callback"],
       [id |-> "cal",     key |-> Key("/cal/ant/", ant_num), cb |-> "cal_callback"] >>

WatchedKeys(ant_num) == { AntWatches(ant_num)[i].key : i \in 1..Len(AntWatches(ant_num)) }

\* the store notifies every watch installed on the key of a put: one delivery
\* per watch, in the order the watches were installed
RECURSIVE DeliveriesFrom(_, _, _, _)
DeliveriesFrom(ws, key, put, p) ==
    IF ws = <<>> THEN <<>>
    ELSE (IF Head(ws).key = key
          THEN << [put |-> put, watch |-> Head(ws).id, cb |-> Head(ws).cb, p |-> p] >>
          ELSE <<>>)
         \o DeliveriesFrom(Tail(ws), key, put, p)

Deliveries(ant_num, key, put, p) == DeliveriesFrom(AntWatches(ant_num), key, put, p)

\* the values clients put: command documents on the command keys, a
\* calibration document on the calibration key
WatchCmds == { MkDict(JStr(S_script), JStr(S_ctl), Absent), MkDict(JStr(S_halt), JInt(0), Absent) }
WatchCals == { CalDoc(<< F(Unit) >>) }
PutValues(key) == IF key.prefix = "/cal/ant/" THEN WatchCals ELSE WatchCmds

\* the transport calls the callback of a delivery makes, in order
HandlerCalls(d) ==
    IF d.cb = "cmd_callback" THEN CmdCallbackRes(d.p, 0).hw
    ELSE ExecuteCal(TRUE, d.p, flash, 0).hw

\* a store client that starts a thread for every delivery
CanDispatchAlways(running) == TRUE

\* the store client runs the callbacks of all its watches on its one watcher
\* thread: the next delivery is handed over when no callback is under way
CanDispatch(running) == running = <<>>

\* the sequence s without its i-th element
RemoveAt(s, i) == SubSeq(s, 1, i - 1) \o SubSeq(s, i + 1, Len(s))

InitWatch ==
    /\ RunningSession
    /\ flash = <<>> /\ flash0 = <<>> /\ calTable = <<>> /\ ncalls = 0 /\ prev = NoOp
    /\ files = {S_ctl}
    /\ event = IdleEvent
    /\ fault = 0
    /\ hwlog = <<>>
    /\ last = NoOp
    /\ \E n \in AntNums :
          watcher = [ant_num |-> n, puts |-> <<>>, queue |-> <<>>, dispatched |-> <<>>,
                     running |-> <<>>, calls |-> <<>>]

nonWatchVars == <<disc, callVars, gcVars, timeVars, sessVars, calVars, cmdVars, fault, hwlog, last>>

\* a client puts a value to a key the session watches
WatchPut ==
    /\ Len(watcher.puts) < MaxPuts
    /\ \E key \in WatchedKeys(watcher.ant_num) :
          \E p \in PutValues(key) :
             watcher' = [watcher EXCEPT
                           !.puts = Append(@, key),
                           !.queue = @ \o Deliveries(watcher.ant_num, key,
                                                     Len(watcher.puts) + 1, p)]
    /\ UNCHANGED nonWatchVars

\* the store client hands the next delivery to its callback
WatchDispatch ==
    /\ watcher.queue # <<>>
    /\ CanDispatch(watcher.running)
    /\ LET d == Head(watcher.queue)
           todo == HandlerCalls(d)
       IN  watcher' = [watcher EXCEPT
                         !.queue = Tail(@),
                         !.dispatched = Append(@, [put |-> d.put, watch |-> d.watch]),
                         !.running = IF todo = <<>> THEN @
                                     ELSE Append(@, [d |-> d, todo |-> todo])]
    /\ UNCHANGED nonWatchVars

\* a callback under way makes its next transport call; after its last call
\* it returns
WatchStep ==
    /\ \E i \in 1..Len(watcher.running) :
          LET h == watcher.running[i]
          IN  watcher' = [watcher EXCEPT
                            !.calls = Append(@, [put |-> h.d.put, watch |-> h.d.watch,
                                                 c |-> Head(h.todo)]),
                            !.running = IF Len(h.todo) = 1 THEN RemoveAt(@, i)
                                        ELSE [@ EXCEPT ![i].todo = Tail(h.todo)]]
    /\ UNCHANGED nonWatchVars

NextWatch == WatchPut \/ WatchDispatch \/ WatchStep

SpecWatch == InitWatch /\ [][NextWatch]_vars

-----------------------------------------------------------------------------
(* Claims about the delivery of puts, checked under SpecWatch *)

\* the number of callbacks the put with index k has been handed to
TimesDispatched(k) ==
    Cardinality({ i \in 1..Len(watcher.dispatched) : watcher.dispatched[i].put = k })

\* nothing is queued and no callback is under way
Quiet == watcher.queue = <<>> /\ watcher.running = <<>>

\* C36: a value put once to /cmd/ant/0 or to the session's own key
\* /cmd/ant/<n> is never handed to command dispatch twice by the session,
\* and once all deliveries are handled it has been dispatched exactly once
C36_EachPutDispatchedOnce ==
    \A k \in 1..Len(watcher.puts) :
        watcher.puts[k].prefix = "/cmd/ant/" =>
            /\ TimesDispatched(k) <= 1
            /\ Quiet => TimesDispatched(k) = 1

\* the callback h is a script load that has made its second stop write and
\* has not yet finished the upload of the source
InUploadWindow(h) ==
    /\ \E j \in 1..Len(h.todo) : h.todo[j].reg = "LUA_SOURCE_WRITE"
    /\ \A j \in 1..Len(h.todo) : h.todo[j] # W("LUA_RUN", JInt(0))

\* the step makes a transport call
MakesCall == Len(watcher'.calls) = Len(watcher.calls) + 1

=============================================================================
